---- MODULE Spec2Model ----
(***************************************************************************)
(* A model of the RISC-V Dynamic Tables pipeline of this repository:       *)
(*   - the table-presence verifier (RiscVDynamicTableManagerDxe.c),        *)
(*   - the FDT parsers of FdtHwInfoParserLib/RiscV (Apic and Madt),        *)
(*   - the generators that read the Configuration Manager store.           *)
(* Statuses are the EFI_STATUS names as strings.                           *)
(***************************************************************************)
EXTENDS Integers, Sequences, FiniteSets, TLC

VARIABLES
  Pcd,          \* FeaturePcdGet (PcdInstallAcpiSdtProtocol), fixed per build
  Presence,     \* mAcpiVerifyTables[i].Presence, a file-scope global
  vPhase,       \* "boot" | "first" | "again": calls of the verifier so far
  Installed,    \* signatures of the tables installed in the live ACPI system
  LocateStatus, \* what gBS->LocateProtocol (gEfiAcpiSdtProtocolGuid) returns
  AcpiSdt,      \* the interface pointer LocateProtocol leaves in AcpiSdt
  vDeclared,    \* AcpiTableInfo signatures of the last call
  vStatus,      \* status returned by the last call
  vLog,         \* the DEBUG messages of the last call's classification
  variant,      \* the parser files built into the library, one of Builds
  fdt,          \* the device tree handed to the parsers
  store,        \* the Configuration Manager objects, in insertion order
  ProcUid,      \* STATIC UINT32 ProcUid of CpuNodeParser
  FoundIsa,     \* STATIC BOOLEAN FoundIsa of CreateIsaStringInfo
  FoundTimer,   \* STATIC BOOLEAN FoundTimer of CreateTimerInfo
  FoundCmo,     \* STATIC BOOLEAN FoundCmo of CreateCmoInfo
  pPhase,       \* "boot" | "first" | "again": parser invocations so far
  pOp,          \* the parser entry point invoked last
  pStatus,      \* the status it returned
  pMark,        \* Len(store) when it was invoked
  pPool,        \* RINTC parsers: the pool calls of the last invocation, in order
  gOp,          \* the generator function called last
  gIn,          \* its arguments
  gOut,         \* its result: [Value, Status, Aml]
  cmoVal,       \* the argument of RhctCmoGetBlockSize
  cmoOut,       \* the value it returned, NotCalled before the call
  uOp,          \* the library function called last (token fixer, FADT, ...)
  uIn,          \* its arguments
  uOut          \* its result

verifyVars == <<Pcd, Installed, LocateStatus, AcpiSdt, Presence, vPhase, vDeclared, vStatus, vLog>>
parseVars == <<variant, fdt, store, ProcUid, FoundIsa, FoundTimer, FoundCmo,
               pPhase, pOp, pStatus, pMark, pPool>>
genVars == <<gOp, gIn, gOut>>
cmoVars == <<cmoVal, cmoOut>>
utilVars == <<uOp, uIn, uOut>>

vars == <<verifyVars, parseVars, genVars, cmoVars, utilVars>>

(***************************************************************************)
(* Generic helpers                                                         *)
(***************************************************************************)
Range(s) == {s[i] : i \in DOMAIN s}

\* All sequences over S of length at most n.
SeqsUpTo(S, n) == UNION {[1..k -> S] : k \in 0..n}

\* Sequences over S of length at most n without a repeated element.
InjSeqsUpTo(S, n) ==
  {s \in SeqsUpTo(S, n) : \A i, j \in DOMAIN s : i # j => s[i] # s[j]}

(***************************************************************************)
(* Table-presence verifier                                                 *)
(***************************************************************************)
ACPI_TABLE_PRESENT_INFO_LIST == 1
ACPI_TABLE_PRESENT_INSTALLED == 2
ACPI_TABLE_VERIFY_COUNT == 5

\* The checklist, 1-based: C index i is entry i + 1.
mAcpiVerifyTables ==
  << [AcpiTableSignature |-> "FACP", AcpiTableName |-> "FADT", IsMandatory |-> TRUE],
     [AcpiTableSignature |-> "APIC", AcpiTableName |-> "MADT", IsMandatory |-> TRUE],
     [AcpiTableSignature |-> "DSDT", AcpiTableName |-> "DSDT", IsMandatory |-> TRUE],
     [AcpiTableSignature |-> "RHCT", AcpiTableName |-> "RHCT", IsMandatory |-> TRUE],
     [AcpiTableSignature |-> "SPCR", AcpiTableName |-> "SPCR", IsMandatory |-> FALSE] >>

VerifyIdx == 1..ACPI_TABLE_VERIFY_COUNT

\* Presence |= Bit, on the two-bit mask.
OrBit(p, bit) == IF (p \div bit) % 2 = 1 THEN p ELSE p + bit

\* The inner for loop of lines 80-86: the first checklist index whose
\* signature matches, 0 when none does.
RECURSIVE FirstMatch(_, _)
FirstMatch(Sig, Index) ==
  IF Index > ACPI_TABLE_VERIFY_COUNT THEN 0
  ELSE IF mAcpiVerifyTables[Index].AcpiTableSignature = Sig THEN Index
  ELSE FirstMatch(Sig, Index + 1)

\* while (AcpiTableCount-- != 0): entries AcpiTableCount-1 down to 0.
RECURSIVE MarkDeclared(_, _, _)
MarkDeclared(P, AcpiTableInfo, AcpiTableCount) ==
  IF AcpiTableCount = 0 THEN P
  ELSE LET m == FirstMatch(AcpiTableInfo[AcpiTableCount], 1)
           P1 == IF m = 0 THEN P
                 ELSE [P EXCEPT ![m] = OrBit(P[m], ACPI_TABLE_PRESENT_INFO_LIST)]
       IN MarkDeclared(P1, AcpiTableInfo, AcpiTableCount - 1)

\* The do-while of lines 102-109: GetAcpiTable (InstalledTableIndex) fails
\* past the last installed table; TRUE when the walk ends on a match.
RECURSIVE WalkInstalled(_, _, _)
WalkInstalled(Tables, Sig, InstalledTableIndex) ==
  IF InstalledTableIndex > Len(Tables) THEN FALSE
  ELSE IF Tables[InstalledTableIndex] = Sig THEN TRUE
  ELSE WalkInstalled(Tables, Sig, InstalledTableIndex + 1)

RECURSIVE MarkInstalled(_, _, _)
MarkInstalled(P, Tables, Index) ==
  IF Index > ACPI_TABLE_VERIFY_COUNT THEN P
  ELSE LET P1 == IF WalkInstalled(Tables, mAcpiVerifyTables[Index].AcpiTableSignature, 1)
                 THEN [P EXCEPT ![Index] = OrBit(P[Index], ACPI_TABLE_PRESENT_INSTALLED)]
                 ELSE P
       IN MarkInstalled(P1, Tables, Index + 1)

\* A classification that lets an entry that is fine reset the status.
ClassifyEntryResetting(P, Index, acc) ==
  IF P[Index] = 0
  THEN IF mAcpiVerifyTables[Index].IsMandatory
       THEN [Status |-> "EFI_NOT_FOUND",
             Log |-> Append(acc.Log, <<"ERROR", "not found", Index>>)]
       ELSE [Status |-> acc.Status,
             Log |-> Append(acc.Log, <<"WARNING", "not found", Index>>)]
  ELSE IF P[Index] = ACPI_TABLE_PRESENT_INFO_LIST + ACPI_TABLE_PRESENT_INSTALLED
       THEN [Status |-> "EFI_ALREADY_STARTED",
             Log |-> Append(acc.Log, <<"ERROR", "already published", Index>>)]
       ELSE [Status |-> "EFI_SUCCESS", Log |-> acc.Log]

\* The classification loop of lines 118-133; acc is [Status, Log].
ClassifyEntry(P, Index, acc) ==
  IF P[Index] = 0
  THEN IF mAcpiVerifyTables[Index].IsMandatory
       THEN [Status |-> "EFI_NOT_FOUND",
             Log |-> Append(acc.Log, <<"ERROR", "not found", Index>>)]
       ELSE [Status |-> acc.Status,
             Log |-> Append(acc.Log, <<"WARNING", "not found", Index>>)]
  ELSE IF P[Index] = ACPI_TABLE_PRESENT_INFO_LIST + ACPI_TABLE_PRESENT_INSTALLED
       THEN [Status |-> "EFI_ALREADY_STARTED",
             Log |-> Append(acc.Log, <<"ERROR", "already published", Index>>)]
       ELSE acc

\* A classification loop that leaves at the first error.
RECURSIVE ClassifyStopping(_, _, _)
ClassifyStopping(P, Index, acc) ==
  IF Index > ACPI_TABLE_VERIFY_COUNT \/ acc.Status # "EFI_SUCCESS" THEN acc
  ELSE ClassifyStopping(P, Index + 1, ClassifyEntry(P, Index, acc))

RECURSIVE Classify(_, _, _)
Classify(P, Index, acc) ==
  IF Index > ACPI_TABLE_VERIFY_COUNT THEN acc
  ELSE Classify(P, Index + 1, ClassifyEntry(P, Index, acc))

\* The function without the reset of Status before the classification: the
\* loop starts from the status of the last GetAcpiTable call.
VerifyMandatoryTablesArePresentUnreset(P, AcpiTableInfo, Tables, PcdOn, Locate, Sdt) ==
  LET P1 == MarkDeclared(P, AcpiTableInfo, Len(AcpiTableInfo))
  IN IF PcdOn /\ (Locate # "EFI_SUCCESS" \/ Sdt = "NULL")
     THEN [Presence |-> P1, Status |-> Locate, Log |-> <<>>]
     ELSE LET P2 == IF PcdOn THEN MarkInstalled(P1, Tables, 1) ELSE P1
              Last == mAcpiVerifyTables[ACPI_TABLE_VERIFY_COUNT].AcpiTableSignature
              S0 == IF PcdOn /\ ~WalkInstalled(Tables, Last, 1)
                    THEN "EFI_NOT_FOUND" ELSE "EFI_SUCCESS"
              c == Classify(P2, 1, [Status |-> S0, Log |-> <<>>])
          IN [Presence |-> P2, Status |-> c.Status, Log |-> c.Log]

\* The whole function: the new Presence column, the returned status, the log.
\* Locate and Sdt are the status of LocateProtocol and the interface pointer
\* it leaves: "if (EFI_ERROR (Status) || (AcpiSdt == NULL)) return Status"
\* returns the status of LocateProtocol, EFI_SUCCESS when the protocol was
\* installed with a NULL interface, before any installed table is looked up
\* and before the classification.
VerifyMandatoryTablesArePresent(P, AcpiTableInfo, Tables, PcdOn, Locate, Sdt) ==
  LET P1 == MarkDeclared(P, AcpiTableInfo, Len(AcpiTableInfo))
  IN IF PcdOn /\ (Locate # "EFI_SUCCESS" \/ Sdt = "NULL")
     THEN [Presence |-> P1, Status |-> Locate, Log |-> <<>>]
     ELSE LET P2 == IF PcdOn THEN MarkInstalled(P1, Tables, 1) ELSE P1
              c == Classify(P2, 1, [Status |-> "EFI_SUCCESS", Log |-> <<>>])
          IN [Presence |-> P2, Status |-> c.Status, Log |-> c.Log]

IsFadtPresentInstalled(P) == (P[1] \div ACPI_TABLE_PRESENT_INSTALLED) % 2 = 1

(***************************************************************************)
(* Bounds of the verifier's inputs                                         *)
(***************************************************************************)
MaxDeclared == 5
MaxInstalled == 5

ChecklistSigs == {mAcpiVerifyTables[i].AcpiTableSignature : i \in VerifyIdx}
\* "SSDT" stands for any table that is not on the checklist.
InstalledSigs == ChecklistSigs \cup {"SSDT"}

\* The declared and the installed lists: each checklist signature at most
\* once, in checklist order or with the SSDT entry in front; at most
\* MaxDeclared and MaxInstalled entries.
RECURSIVE SubSeqOf(_, _)
SubSeqOf(S, Index) ==
  IF Index > ACPI_TABLE_VERIFY_COUNT THEN <<>>
  ELSE (IF mAcpiVerifyTables[Index].AcpiTableSignature \in S
        THEN <<mAcpiVerifyTables[Index].AcpiTableSignature>> ELSE <<>>)
       \o SubSeqOf(S, Index + 1)

DeclaredLists ==
  {SubSeqOf(S, 1) : S \in {T \in SUBSET ChecklistSigs : Cardinality(T) <= MaxDeclared}}
  \cup {<<"SSDT">> \o SubSeqOf(S, 1) :
          S \in {T \in SUBSET ChecklistSigs : Cardinality(T) + 1 <= MaxDeclared}}

InstalledLists ==
  {SubSeqOf(S, 1) : S \in {T \in SUBSET ChecklistSigs : Cardinality(T) <= MaxInstalled}}
  \cup {<<"SSDT">> \o SubSeqOf(S, 1) :
          S \in {T \in SUBSET ChecklistSigs : Cardinality(T) + 1 <= MaxInstalled}}

\* What LocateProtocol gives: the status and the interface pointer.  A
\* protocol installed with a NULL interface is located with EFI_SUCCESS and
\* leaves NULL; a failing call leaves the NULL AcpiSdt was set to.
LocateOutcomes ==
  {<<"EFI_SUCCESS", "protocol">>, <<"EFI_SUCCESS", "NULL">>, <<"EFI_NOT_FOUND", "NULL">>}

(***************************************************************************)
(* Device tree and Configuration Manager store                             *)
(*                                                                         *)
(* fdt.cpus are the "cpu" nodes under /cpus and fdt.devs the other nodes,   *)
(* both in fdt_next_node order.  A numeric property that is absent is -1,  *)
(* a phandle that is absent is 0; interrupts-extended is the flat cell     *)
(* array <<phandle, type, phandle, type, ...>>.                            *)
(***************************************************************************)
IRQ_S_EXT == 9
IRQ_M_EXT == 11
IMSIC_MMIO_PAGE_SHIFT == 12
IMSIC_MMIO_PAGE_SZ == 4096
CM_NULL_TOKEN == 0
EFI_ACPI_6_6_RINTC_FLAG_ENABLE == 1

\* sizeof of the packed (#pragma pack(1)) structures of
\* RiscVNameSpaceObjects.h, CM_OBJECT_TOKEN and pointers being 8 bytes.
sizeof_CM_RISCV_RINTC_INFO == 50
sizeof_CM_RISCV_IMSIC_INFO == 14
sizeof_CM_RISCV_APLIC_INFO == 34
sizeof_CM_RISCV_PLIC_INFO == 34
sizeof_CM_RISCV_ISA_STRING_NODE == 10
sizeof_CM_RISCV_CMO_NODE == 3
sizeof_CM_RISCV_TIMER_INFO == 9

\* EFI_ERROR tests the high bit of the status.  It is clear in EFI_SUCCESS,
\* in the warning codes and in a word below MAX_BIT that is no status code
\* ("0x00007FFDDDAB5BC0" stands for such a word); every other value of the
\* model is an error code or a word with the high bit set.
EFI_ERROR(Status) ==
  Status \notin {"EFI_SUCCESS", "EFI_WARN_DELETE_FAILURE", "0x00007FFDDDAB5BC0"}

\* (PlicAplicId << 24) | CtxIdcId, for CtxIdcId below 2^24.
ACPI_BUILD_EXT_INTC_ID(PlicAplicId, CtxIdcId) == PlicAplicId * 16777216 + CtxIdcId

\* HW_INFO_ADD_OBJECT through AddSingleCmObj: one object of Count 1.
\* By (the emitting parser) and Node (the device-tree node parsed) are
\* history fields of the model.
AddSingleCmObj(Store, ObjectId, Rec, Size, By, Node) ==
  Append(Store, [ObjectId |-> ObjectId, Count |-> 1, Size |-> Size,
                 Data |-> <<Rec>>, By |-> By, Node |-> Node])

\* CreateCmObjDesc: the descriptor copies the Count records of the buffer.
CreateCmObjDesc(ObjectId, Count, Buffer, Size) ==
  [ObjectId |-> ObjectId, Count |-> Count, Size |-> Size, Data |-> Buffer]

\* AddMultipleCmObj: the descriptor's records go to the store as one object.
AddMultipleCmObj(Store, Desc, By) ==
  Append(Store, [ObjectId |-> Desc.ObjectId, Count |-> Desc.Count,
                 Size |-> Desc.Size, Data |-> Desc.Data, By |-> By, Node |-> 0])

\* GetObjectList with CM_NULL_TOKEN: every record of the type, in store
\* order; EFI_NOT_FOUND when the store has none.
RECURSIVE RecordsOf(_, _, _)
RecordsOf(Store, ObjectId, i) ==
  IF i > Len(Store) THEN <<>>
  ELSE (IF Store[i].ObjectId = ObjectId THEN Store[i].Data ELSE <<>>)
       \o RecordsOf(Store, ObjectId, i + 1)

GetObjectList(Store, ObjectId) ==
  LET recs == RecordsOf(Store, ObjectId, 1)
  IN [Status |-> IF Len(recs) = 0 THEN "EFI_NOT_FOUND" ELSE "EFI_SUCCESS",
      List |-> recs, Count |-> Len(recs)]

(***************************************************************************)
(* Apic/RiscVRintcParser.c                                                 *)
(***************************************************************************)
\* FdtNodeIsCompatible against a one-string COMPATIBILITY_INFO.
FdtNodeIsCompatible(Node, CompatStr) == Node.compat = CompatStr

\* FdtGetCompatSmodeNode with IsIc = FALSE: the first compatible node,
\* 0 (EFI_NOT_FOUND) when there is none.
RECURSIVE FdtGetCompatSmodeNode(_, _, _)
FdtGetCompatSmodeNode(Fdt, CompatStr, i) ==
  IF i > Len(Fdt.devs) THEN 0
  ELSE IF FdtNodeIsCompatible(Fdt.devs[i], CompatStr) THEN i
  ELSE FdtGetCompatSmodeNode(Fdt, CompatStr, i + 1)

\* The integers the parsers compute from their locals and store in the
\* records.  A local declared without an initialiser holds on entry
\* whatever its stack slot or register holds, a value no argument of the
\* function determines and that differs from build to build and from call
\* to call; the model names that value instead of choosing it.  A value is
\* [Held, Call, Off]: Off more than what the local Held held on entry to
\* invocation Call, or, with Held = "", the number Off.  Two values with
\* different Held or Call are unrelated: any pair of numbers can occur.
Known(n) == [Held |-> "", Call |-> 0, Off |-> n]
HeldValue(Local, Call) == [Held |-> Local, Call |-> Call, Off |-> 0]
\* v + n.
Plus(v, n) == [v EXCEPT !.Off = v.Off + n]
\* Assignment of a value to a UINT8 field: what was held counts modulo 256
\* as well.
AsUint8(v) == [v EXCEPT !.Off = v.Off % 256]

\* while (Val > 1) { Ret++; Val >>= 1; } from the initial value Ret.
RECURSIVE CmoShiftLoop(_, _)
CmoShiftLoop(Val, Ret) ==
  IF Val > 1 THEN CmoShiftLoop(Val \div 2, Plus(Ret, 1)) ELSE Ret

\* Apic variant: "UINT32 Ret;" has no initialiser, so the loop starts from
\* whatever Ret holds (Uninit).
RhctCmoGetBlockSizeApic(Val, Uninit) == CmoShiftLoop(Val, Uninit)

\* Madt variant: "UINT32 Ret = 0;".
RhctCmoGetBlockSizeMadt(Val) == CmoShiftLoop(Val, Known(0))

RhctCmoGetBlockSize(Variant, Val, Uninit) ==
  IF Variant = "Apic" THEN RhctCmoGetBlockSizeApic(Val, Uninit)
  ELSE RhctCmoGetBlockSizeMadt(Val)

\* Assignment to a UINT8 field.
ToUint8(v) == v % 256
\* Assignment to a UINT16 field.
ToUint16(v) == v % 65536

\* The parser state threaded through a session: the function-static
\* variables and the store.  S = [ProcUid, FoundIsa, FoundTimer, FoundCmo, Store].

\* CreateCmoInfo.  U.Ret are what Ret holds on entry to each of the three
\* RhctCmoGetBlockSize calls.
CreateCmoInfo(Variant, Cpu, S, U) ==
  IF S.FoundCmo THEN S
  ELSE IF Cpu.cbom = -1 THEN S
  ELSE LET CmoInfo ==
             [CbomBlockSize |-> AsUint8(RhctCmoGetBlockSize(Variant, Cpu.cbom, U.Ret[1])),
              CbozBlockSize |-> IF Cpu.cboz = -1 THEN Known(0)
                                ELSE AsUint8(RhctCmoGetBlockSize(Variant, Cpu.cboz, U.Ret[2])),
              CbopBlockSize |-> IF Cpu.cbop = -1 THEN Known(0)
                                ELSE AsUint8(RhctCmoGetBlockSize(Variant, Cpu.cbop, U.Ret[3]))]
       IN [S EXCEPT !.Store = AddSingleCmObj(S.Store, "ERiscVObjCmoInfo", CmoInfo,
                                             sizeof_CM_RISCV_CMO_NODE,
                                             "CreateCmoInfo", 0),
                    !.FoundCmo = TRUE]

\* CreateIsaStringInfo without the FoundIsa test.
CreateIsaStringInfoUnlatched(Cpu, S) ==
  IF Cpu.isaLen = -1 THEN S
  ELSE [S EXCEPT !.Store = AddSingleCmObj(S.Store, "ERiscVObjIsaStringInfo",
                                          [Length |-> ToUint16(Cpu.isaLen)],
                                          Cpu.isaLen + 2,
                                          "CreateIsaStringInfo", 0),
                 !.FoundIsa = TRUE]

\* CreateIsaStringInfo: Length is the property length; isaLen = -1 is an
\* absent riscv,isa.
CreateIsaStringInfo(Cpu, S) ==
  IF S.FoundIsa THEN S
  ELSE IF Cpu.isaLen = -1 THEN S
  ELSE [S EXCEPT !.Store = AddSingleCmObj(S.Store, "ERiscVObjIsaStringInfo",
                                          [Length |-> ToUint16(Cpu.isaLen)],
                                          Cpu.isaLen + 2,
                                          "CreateIsaStringInfo", 0),
                 !.FoundIsa = TRUE]

\* CreateTimerInfo with the flag test inverted: 1 for an absent
\* riscv,timer-cannot-wake-cpu.
CreateTimerInfoFlagInverted(Fdt, S, U) ==
  IF S.FoundTimer THEN S
  ELSE IF Fdt.tbf = -1 THEN S
  ELSE LET TimerNode == FdtGetCompatSmodeNode(Fdt, "riscv,timer", 1)
           TimerInfo ==
             [TimeBaseFrequency |-> Fdt.tbf,
              TimerCannotWakeCpu |->
                IF TimerNode # 0
                THEN (IF Fdt.devs[TimerNode].cannotWake THEN Known(0) ELSE Known(1))
                ELSE U.Wake]
       IN [S EXCEPT !.Store = AddSingleCmObj(S.Store, "ERiscVObjTimerInfo", TimerInfo,
                                             sizeof_CM_RISCV_TIMER_INFO,
                                             "CreateTimerInfo", TimerNode),
                    !.FoundTimer = TRUE]

\* CreateTimerInfo: the cpu nodes being parsed are the children of /cpus,
\* so fdt_path_offset finds it; timebase-frequency is read from /cpus; the flag is
\* assigned only when a riscv,timer node exists, else it keeps what the
\* field of the local TimerInfo held on entry (U.Wake).
CreateTimerInfo(Fdt, S, U) ==
  IF S.FoundTimer THEN S
  ELSE IF Fdt.tbf = -1 THEN S
  ELSE LET TimerNode == FdtGetCompatSmodeNode(Fdt, "riscv,timer", 1)
           TimerInfo ==
             [TimeBaseFrequency |-> Fdt.tbf,
              TimerCannotWakeCpu |->
                IF TimerNode # 0
                THEN (IF Fdt.devs[TimerNode].cannotWake THEN Known(1) ELSE Known(0))
                ELSE U.Wake]
       IN [S EXCEPT !.Store = AddSingleCmObj(S.Store, "ERiscVObjTimerInfo", TimerInfo,
                                             sizeof_CM_RISCV_TIMER_INFO,
                                             "CreateTimerInfo", TimerNode),
                    !.FoundTimer = TRUE]

\* A UINT64 as its two 32-bit words, the high word first.
Uint64(Hi, Lo) == <<Hi, Lo>>

\* The hart id read from "reg": 8 bytes when AddressCells is 2, else 4.
\* fdt64_to_cpu puts the first word read in the high half.  The first word
\* of an 8-byte reg is the high word of the hart id; 8 bytes read from a
\* 4-byte reg take the hart id as the high word and the word that follows
\* the property in the blob as the low word.
ReadHartId(Cpu, AddressCells) ==
  IF AddressCells = 2
  THEN (IF Cpu.regLen = 8 THEN Uint64(0, Cpu.hartId)
        ELSE Uint64(Cpu.hartId, Cpu.regNext))
  ELSE (IF Cpu.regLen = 8 THEN Uint64(0, 0) ELSE Uint64(0, Cpu.hartId))

\* The record AllocateZeroPool hands to CpuNodeParser.
ZeroRintc ==
  [Version |-> 0, Flags |-> 0, HartId |-> Uint64(0, 0), AcpiProcessorUid |-> 0,
   ExtIntCId |-> 0, ImsicBaseAddress |-> 0, ImsicSize |-> 0, IntcPhandle |-> 0,
   CpcToken |-> CM_NULL_TOKEN, EtToken |-> CM_NULL_TOKEN]

\* fdt_address_cells: the #address-cells of the node; 2 when the property
\* cannot be read, as for a node without it (addressCells = -1) and for the
\* offset -1 that names no node; -FDT_ERR_BADNCELLS (-14) when the value is
\* not in 1..FDT_MAX_NCELLS (4).  A node offset is written as the path of
\* its node, "-1" being the offset -1.
fdt_address_cells(Fdt, NodeOffset) ==
  IF NodeOffset = "-1" \/ Fdt.addressCells = -1 THEN 2
  ELSE IF Fdt.addressCells <= 0 \/ Fdt.addressCells > 4 THEN -14
  ELSE Fdt.addressCells

\* CpuNodeParser (Apic): [Status, Rintc, S].
CpuNodeParser(Variant, Fdt, Cpu, AddressCells, S, U) ==
  IF Cpu.regLen # 4 /\ Cpu.regLen # 8
  THEN [Status |-> "EFI_ABORTED", Rintc |-> ZeroRintc, S |-> S]
  ELSE LET Rintc == [ZeroRintc EXCEPT
                       !.IntcPhandle = Cpu.phandle,
                       !.Flags = EFI_ACPI_6_6_RINTC_FLAG_ENABLE,
                       !.HartId = ReadHartId(Cpu, AddressCells),
                       !.Version = 1,
                       !.AcpiProcessorUid = S.ProcUid,
                       !.ExtIntCId = 0]
           S0 == [S EXCEPT !.ProcUid = S.ProcUid + 1]
           S1 == IF Variant = "Apic"
                 THEN CreateIsaStringInfo(Cpu, CreateCmoInfo(Variant, Cpu, S0, U))
                 ELSE CreateCmoInfo(Variant, Cpu, CreateIsaStringInfo(Cpu, S0), U)
           S2 == CreateTimerInfo(Fdt, S1, U)
       IN [Status |-> "EFI_SUCCESS", Rintc |-> Rintc, S |-> S2]

\* The for loop of CpusNodeParser over the cpu nodes from Index on.
RECURSIVE CpusLoop(_, _, _, _, _, _, _)
CpusLoop(Variant, Fdt, AddressCells, Index, Buffer, S, U) ==
  IF Index > Len(Fdt.cpus)
  THEN [Status |-> "EFI_SUCCESS", Buffer |-> Buffer, S |-> S]
  ELSE IF ~FdtNodeIsCompatible(Fdt.cpus[Index], "riscv")
  THEN [Status |-> "EFI_UNSUPPORTED", Buffer |-> Buffer, S |-> S]
  ELSE LET r == CpuNodeParser(Variant, Fdt, Fdt.cpus[Index], AddressCells, S, U)
       IN IF EFI_ERROR(r.Status)
          THEN [Status |-> r.Status, Buffer |-> Buffer, S |-> r.S]
          ELSE CpusLoop(Variant, Fdt, AddressCells, Index + 1,
                        Append(Buffer, r.Rintc), r.S, U)

\* The pool calls on the scratch storage of the RINTC parsers: the
\* temporary record array and the descriptor CreateCmObjDesc allocates.
AllocBuffer == <<"AllocateZeroPool", "RintcInfoBuffer">>
FreeBuffer == <<"FreePool", "RintcInfoBuffer">>
AllocDesc == <<"CreateCmObjDesc", "NewCmObjDesc">>
FreeDesc == <<"FreeCmObjDesc", "NewCmObjDesc">>

\* CpusNodeParser: [Status, Desc, S, Pool]; Desc.Count = 0 stands for the
\* NULL descriptor of a failed parse, Pool is the pool calls made.  The
\* cpu nodes are counted and walked in the branch CpusNode; the branch -1
\* is the whole tree, which holds the same cpu nodes.
NullDesc == [ObjectId |-> "ERiscVObjRintcInfo", Count |-> 0, Size |-> 0, Data |-> <<>>]

\* After the for loop returned r: the exit_handler of a failed loop, or
\* CreateCmObjDesc over the filled array.
CpusNodeParserAfterLoop(Fdt, r) ==
  IF EFI_ERROR(r.Status)
  THEN [Status |-> r.Status, Desc |-> NullDesc, S |-> r.S,
        Pool |-> <<AllocBuffer, FreeBuffer>>]
  ELSE [Status |-> "EFI_SUCCESS",
        Desc |-> CreateCmObjDesc("ERiscVObjRintcInfo", Len(Fdt.cpus), r.Buffer,
                                Len(Fdt.cpus) * sizeof_CM_RISCV_RINTC_INFO),
        S |-> r.S,
        Pool |-> <<AllocBuffer, AllocDesc, FreeBuffer>>]

CpusNodeParser(Variant, Fdt, CpusNode, S, U) ==
  IF fdt_address_cells(Fdt, CpusNode) < 0
  THEN [Status |-> "EFI_ABORTED", Desc |-> NullDesc, S |-> S, Pool |-> <<>>]
  ELSE IF Len(Fdt.cpus) = 0
  THEN [Status |-> "EFI_NOT_FOUND", Desc |-> NullDesc, S |-> S, Pool |-> <<>>]
  ELSE CpusNodeParserAfterLoop(
         Fdt, CpusLoop(Variant, Fdt, fdt_address_cells(Fdt, CpusNode), 1, <<>>, S, U))

\* RiscVFindRintc: the index of the first record with the phandle, 0 for NULL.
RECURSIVE RiscVFindRintc(_, _, _)
RiscVFindRintc(Data, Phandle, i) ==
  IF i > Len(Data) THEN 0
  ELSE IF Data[i].IntcPhandle = Phandle THEN i
  ELSE RiscVFindRintc(Data, Phandle, i + 1)

\* Cell n (from 1) read through the interrupts-extended pointer: a cell of
\* the property, or past its end the words that follow it in the blob.
IntExtCell(Node, n) ==
  IF n <= Len(Node.intExt) THEN Node.intExt[n]
  ELSE Node.intExtAfter[n - Len(Node.intExt)]

\* Cell n (from 1) read through the reg pointer of a PLIC or APLIC node.
\* The parsers test the length of reg for a multiple of 4 only and then read
\* 16 bytes, so past the end of a reg of 4, 8 or 12 bytes they read the words
\* that follow the property in the blob.
RegCell(Node, n) ==
  IF n <= Len(Node.regCells) THEN Node.regCells[n]
  ELSE Node.regAfter[n - Len(Node.regCells)]

\* "fdt64_to_cpu (ReadUnaligned64 ((const UINT64 *)Prop))" assigned to the
\* UINT64 address field: the first cell is the high word.
RegAddress(Node) == RegCell(Node, 1) * 65536 * 65536 + RegCell(Node, 2)

\* "fdt64_to_cpu (ReadUnaligned64 ((const UINT64 *)Prop + 1))" assigned to
\* the UINT32 size field, which keeps the low word: the fourth cell.
RegSize(Node) == RegCell(Node, 4)

\* interrupts-extended cells are read pairwise: the phandle and the type
\* cell of pair k (from 0).
IntExtPhandle(Node, k) == IntExtCell(Node, 2 * k + 1)
IntExtType(Node, k) == IntExtCell(Node, 2 * k + 2)

\* "IrqProp && Len >= 4 && IrqProp[1] == IRQ_S_EXT": Len counts bytes, so
\* one cell passes the length test.
FirstIrqIsSExt(Node) ==
  Node.hasIntExt /\ Len(Node.intExt) >= 1 /\ IntExtType(Node, 0) = IRQ_S_EXT

\* fdt_node_offset_by_phandle over the non-cpu nodes, 0 when not found.
RECURSIVE NodeOffsetByPhandle(_, _, _)
NodeOffsetByPhandle(Fdt, Phandle, i) ==
  IF i > Len(Fdt.devs) THEN 0
  ELSE IF Fdt.devs[i].phandle = Phandle THEN i
  ELSE NodeOffsetByPhandle(Fdt, Phandle, i + 1)

\* IsSmodeAplic.
IsSmodeAplic(Fdt, Node) ==
  IF FirstIrqIsSExt(Node) THEN TRUE
  ELSE IF Node.msiParent # 0
  THEN LET ImsicNode == NodeOffsetByPhandle(Fdt, Node.msiParent, 1)
       IN IF ImsicNode = 0 THEN FALSE ELSE FirstIrqIsSExt(Fdt.devs[ImsicNode])
  ELSE FALSE

\* The inner loop of PlicRintcInfoParser over the pairs from j on:
\* [Ok, Data]; Ok is FALSE when an S-mode target has no RINTC record.
RECURSIVE PlicPatchLoop(_, _, _, _)
PlicPatchLoop(Node, Data, PlicId, j) ==
  IF 2 * j >= Len(Node.intExt) THEN [Ok |-> TRUE, Data |-> Data]
  ELSE IF IntExtType(Node, j) = IRQ_S_EXT
  THEN LET r == RiscVFindRintc(Data, IntExtPhandle(Node, j), 1)
       IN IF r = 0 THEN [Ok |-> FALSE, Data |-> Data]
          ELSE PlicPatchLoop(Node,
                 [Data EXCEPT ![r].ExtIntCId =
                    ACPI_BUILD_EXT_INTC_ID(PlicId, 2 * (j \div 2) + 1)],
                 PlicId, j + 1)
  ELSE PlicPatchLoop(Node, Data, PlicId, j + 1)

\* PlicRintcInfoParser from node i on: [Status, Data, Store].
RECURSIVE PlicRintcLoop(_, _, _, _, _, _)
PlicRintcLoop(Fdt, i, Data, Store, PlicId, PlicGsiBase) ==
  IF i > Len(Fdt.devs) THEN [Status |-> "EFI_SUCCESS", Data |-> Data, Store |-> Store]
  ELSE LET Node == Fdt.devs[i]
       IN IF ~FdtNodeIsCompatible(Node, "riscv,plic0")
          THEN PlicRintcLoop(Fdt, i + 1, Data, Store, PlicId, PlicGsiBase)
          ELSE IF ~Node.hasIntExt \/ Len(Node.intExt) < 1
          THEN [Status |-> "EFI_INVALID_PARAMETER", Data |-> Data, Store |-> Store]
          ELSE LET p == PlicPatchLoop(Node, Data, PlicId, 0)
               IN IF ~p.Ok
                  THEN [Status |-> "EFI_INVALID_PARAMETER", Data |-> p.Data, Store |-> Store]
                  ELSE IF Node.regLen = 0 \/ Node.regLen % 4 > 0
                          \/ Node.numSources = -1 \/ Node.phandle = 0
                  THEN [Status |-> "EFI_INVALID_PARAMETER", Data |-> p.Data, Store |-> Store]
                  ELSE LET PlicInfo ==
                             [Version |-> 1, Id |-> Known(ToUint8(PlicId)),
                              Address |-> RegAddress(Node), Size |-> RegSize(Node),
                              NumSources |-> ToUint16(Node.numSources),
                              GsiBase |-> Known(PlicGsiBase), Phandle |-> Node.phandle,
                              NumIdcs |-> 0]
                       IN PlicRintcLoop(Fdt, i + 1, p.Data,
                            AddSingleCmObj(Store, "ERiscVObjPlicInfo", PlicInfo,
                                           sizeof_CM_RISCV_PLIC_INFO,
                                           "PlicRintcInfoParser", i),
                            PlicId + 1, PlicGsiBase + PlicInfo.NumSources)

\* "UINT32 PlicGsiBase = 0; INT32 PlicId = 0;".
PlicRintcInfoParser(Fdt, Data, Store) == PlicRintcLoop(Fdt, 1, Data, Store, 0, 0)

\* The inner loop of AplicRintcInfoParser over the pairs from k on.
RECURSIVE AplicPatchLoop(_, _, _, _)
AplicPatchLoop(Node, Data, AplicId, k) ==
  IF 2 * k >= Len(Node.intExt) THEN [Ok |-> TRUE, Data |-> Data]
  ELSE LET r == RiscVFindRintc(Data, IntExtPhandle(Node, k), 1)
       IN IF r = 0 THEN [Ok |-> FALSE, Data |-> Data]
          ELSE AplicPatchLoop(Node,
                 [Data EXCEPT ![r].ExtIntCId = ACPI_BUILD_EXT_INTC_ID(AplicId, k)],
                 AplicId, k + 1)

\* AplicRintcInfoParser from node i on: [Status, Data, Store].
RECURSIVE AplicRintcLoop(_, _, _, _, _, _)
AplicRintcLoop(Fdt, i, Data, Store, AplicId, AplicGsiBase) ==
  IF i > Len(Fdt.devs) THEN [Status |-> "EFI_SUCCESS", Data |-> Data, Store |-> Store]
  ELSE LET Node == Fdt.devs[i]
       IN IF ~(FdtNodeIsCompatible(Node, "riscv,aplic") /\ IsSmodeAplic(Fdt, Node))
          THEN AplicRintcLoop(Fdt, i + 1, Data, Store, AplicId, AplicGsiBase)
          ELSE LET Patch == Node.hasIntExt /\ Len(Node.intExt) % 2 = 0
                   p == IF Patch THEN AplicPatchLoop(Node, Data, AplicId, 0)
                        ELSE [Ok |-> TRUE, Data |-> Data]
               IN IF ~p.Ok
                  THEN [Status |-> "EFI_NOT_FOUND", Data |-> p.Data, Store |-> Store]
                  ELSE IF Node.regLen = 0 \/ Node.regLen % 4 > 0
                          \/ Node.numSources = -1 \/ Node.phandle = 0
                  THEN [Status |-> "EFI_INVALID_PARAMETER", Data |-> p.Data, Store |-> Store]
                  ELSE LET AplicInfo ==
                             [Version |-> 1, Id |-> Known(ToUint8(AplicId)),
                              Address |-> RegAddress(Node), Size |-> RegSize(Node),
                              NumSources |-> ToUint16(Node.numSources),
                              GsiBase |-> Known(AplicGsiBase), Phandle |-> Node.phandle,
                              NumIdcs |-> IF Patch THEN Len(Node.intExt) \div 2 ELSE 0]
                       IN AplicRintcLoop(Fdt, i + 1, p.Data,
                            AddSingleCmObj(Store, "ERiscVObjAplicInfo", AplicInfo,
                                           sizeof_CM_RISCV_APLIC_INFO,
                                           "AplicRintcInfoParser", i),
                            AplicId + 1, AplicGsiBase + AplicInfo.NumSources)

AplicRintcInfoParser(Fdt, Data, Store) == AplicRintcLoop(Fdt, 1, Data, Store, 0, 0)

\* "while (Len > 0) { HartIndexBits++; Len >>= 1; }".
RECURSIVE HartIndexBitsOf(_)
HartIndexBitsOf(n) == IF n > 0 THEN 1 + HartIndexBitsOf(n \div 2) ELSE 0

\* The CM_RISCV_IMSIC_INFO both ImsicRintcInfoParser fill from the node's
\* properties, each 32-bit cell assigned to the UINT16 or UINT8 field it
\* belongs to; an absent property (-1) gives the default.  NoGuestIds is
\* the default of riscv,num-guest-ids, which differs between the variants.
ImsicProps(Node, NoGuestIds) ==
  [Version |-> 1, Reserved1 |-> 0, Flags |-> 0,
   NumIds |-> ToUint16(Node.numIds),
   NumGuestIds |-> IF Node.numGuestIds = -1 THEN NoGuestIds
                   ELSE ToUint16(Node.numGuestIds),
   GuestIndexBits |-> IF Node.guestIndexBits = -1 THEN 0
                      ELSE ToUint8(Node.guestIndexBits),
   HartIndexBits |-> IF Node.hartIndexBits = -1 THEN 0
                     ELSE ToUint8(Node.hartIndexBits),
   GroupIndexBits |-> IF Node.groupIndexBits = -1 THEN 0
                      ELSE ToUint8(Node.groupIndexBits),
   GroupIndexShift |-> IF Node.groupIndexShift = -1 THEN IMSIC_MMIO_PAGE_SHIFT * 2
                       ELSE ToUint8(Node.groupIndexShift)]

\* "if (ImsicInfo.HartIndexBits == 0)": the field as stored, so a property
\* that is a multiple of 256 counts as absent.
DefaultHartIndexBits(HartIndexBits, NumPhandle) ==
  IF HartIndexBits = 0 THEN HartIndexBitsOf(NumPhandle) ELSE HartIndexBits

\* The two nested loops of ImsicRintcInfoParser over the reg ranges (Idx),
\* the pages of a range (Idx1) and the interrupts-extended pairs (Idx2).
RECURSIVE ImsicPatchLoop(_, _, _, _, _)
ImsicPatchLoop(Node, Data, Idx, Idx1, Idx2) ==
  IF Idx > Len(Node.reg) THEN [Ok |-> TRUE, Data |-> Data]
  ELSE IF Idx1 < Node.reg[Idx].size \div IMSIC_MMIO_PAGE_SZ
          /\ Idx2 < Len(Node.intExt) \div 2
  THEN LET r == RiscVFindRintc(Data, IntExtPhandle(Node, Idx2), 1)
       IN IF r = 0 THEN [Ok |-> FALSE, Data |-> Data]
          ELSE ImsicPatchLoop(Node,
                 [Data EXCEPT
                    ![r].ImsicBaseAddress = Node.reg[Idx].addr + Idx1 * IMSIC_MMIO_PAGE_SZ,
                    ![r].ImsicSize = IMSIC_MMIO_PAGE_SZ],
                 Idx, Idx1 + 1, Idx2 + 1)
  ELSE ImsicPatchLoop(Node, Data, Idx + 1, 0, Idx2)

\* ImsicRintcInfoParser from node i on: [Status, Data, Store].
RECURSIVE ImsicRintcLoop(_, _, _, _)
ImsicRintcLoop(Fdt, i, Data, Store) ==
  IF i > Len(Fdt.devs) THEN [Status |-> "EFI_NOT_FOUND", Data |-> Data, Store |-> Store]
  ELSE LET Node == Fdt.devs[i]
       IN IF ~FdtNodeIsCompatible(Node, "riscv,imsics")
          THEN ImsicRintcLoop(Fdt, i + 1, Data, Store)
          ELSE IF ~Node.hasIntExt \/ Len(Node.intExt) % 2 # 0
          THEN [Status |-> "EFI_INVALID_PARAMETER", Data |-> Data, Store |-> Store]
          ELSE IF IntExtType(Node, 0) # IRQ_S_EXT
          THEN ImsicRintcLoop(Fdt, i + 1, Data, Store)
          ELSE IF Len(Node.intExt) = 0
          THEN [Status |-> "EFI_NOT_FOUND", Data |-> Data, Store |-> Store]
          ELSE IF Node.numIds = -1
          THEN [Status |-> "EFI_INVALID_PARAMETER", Data |-> Data, Store |-> Store]
          ELSE IF Node.regLen = 0 \/ (Node.regLen \div 4) % 4 # 0
          THEN [Status |-> "EFI_INVALID_PARAMETER", Data |-> Data, Store |-> Store]
          ELSE LET NumPhandle == Len(Node.intExt) \div 2
                   ImsicInfo ==
                     [ImsicProps(Node, ToUint16(Node.numIds)) EXCEPT
                        !.HartIndexBits = DefaultHartIndexBits(@, NumPhandle)]
                   p == ImsicPatchLoop(Node, Data, 1, 0, 0)
               IN IF ~p.Ok
                  THEN [Status |-> "EFI_NOT_FOUND", Data |-> p.Data, Store |-> Store]
                  ELSE [Status |-> "EFI_SUCCESS", Data |-> p.Data,
                        Store |-> AddSingleCmObj(Store, "ERiscVObjImsicInfo", ImsicInfo,
                                                 sizeof_CM_RISCV_IMSIC_INFO,
                                                 "ImsicRintcInfoParser", i)]

ImsicRintcInfoParser(Fdt, Data, Store) == ImsicRintcLoop(Fdt, 1, Data, Store)

\* RiscVIntcInfoParser: [Status, S], written as its four steps, each taking
\* the result of the call before it.  A controller parser's EFI_NOT_FOUND
\* is let through; the RINTC records reach the store only at the end; on
\* the exit_handler path the objects already added stay in the store.

\* After PlicRintcInfoParser returned pl: AddMultipleCmObj.
IntcAfterPlic(c, pl) ==
  IF EFI_ERROR(pl.Status) /\ pl.Status # "EFI_NOT_FOUND"
  THEN [Status |-> pl.Status, S |-> [c.S EXCEPT !.Store = pl.Store]]
  ELSE [Status |-> "EFI_SUCCESS",
        S |-> [c.S EXCEPT !.Store =
                 AddMultipleCmObj(pl.Store, [c.Desc EXCEPT !.Data = pl.Data],
                                  "RiscVIntcInfoParser")]]

\* After AplicRintcInfoParser returned ap: the PLIC pass.
IntcAfterAplic(Fdt, c, ap) ==
  IF EFI_ERROR(ap.Status) /\ ap.Status # "EFI_NOT_FOUND"
  THEN [Status |-> ap.Status, S |-> [c.S EXCEPT !.Store = ap.Store]]
  ELSE IntcAfterPlic(c, PlicRintcInfoParser(Fdt, ap.Data, ap.Store))

\* After ImsicRintcInfoParser returned im: the APLIC pass.
IntcAfterImsic(Fdt, c, im) ==
  IF EFI_ERROR(im.Status) /\ im.Status # "EFI_NOT_FOUND"
  THEN [Status |-> im.Status, S |-> [c.S EXCEPT !.Store = im.Store]]
  ELSE IntcAfterAplic(Fdt, c, AplicRintcInfoParser(Fdt, im.Data, im.Store))

\* The RINTC records handed to the store as soon as they are created, before
\* the controller passes patch them.
IntcAddingFirst(Fdt, c) ==
  IF EFI_ERROR(c.Status) THEN [Status |-> c.Status, S |-> c.S]
  ELSE LET Early == AddMultipleCmObj(c.S.Store, c.Desc, "RiscVIntcInfoParser")
           im == ImsicRintcInfoParser(Fdt, c.Desc.Data, Early)
           ap == AplicRintcInfoParser(Fdt, im.Data, im.Store)
           pl == PlicRintcInfoParser(Fdt, ap.Data, ap.Store)
       IN IF EFI_ERROR(im.Status) /\ im.Status # "EFI_NOT_FOUND"
          THEN [Status |-> im.Status, S |-> [c.S EXCEPT !.Store = im.Store]]
          ELSE IF EFI_ERROR(ap.Status) /\ ap.Status # "EFI_NOT_FOUND"
          THEN [Status |-> ap.Status, S |-> [c.S EXCEPT !.Store = ap.Store]]
          ELSE IF EFI_ERROR(pl.Status) /\ pl.Status # "EFI_NOT_FOUND"
          THEN [Status |-> pl.Status, S |-> [c.S EXCEPT !.Store = pl.Store]]
          ELSE [Status |-> "EFI_SUCCESS", S |-> [c.S EXCEPT !.Store = pl.Store]]

\* After CpusNodeParser returned c: the IMSIC pass.
IntcAfterCpus(Fdt, c) ==
  IF EFI_ERROR(c.Status) THEN [Status |-> c.Status, S |-> c.S]
  ELSE IntcAfterImsic(Fdt, c, ImsicRintcInfoParser(Fdt, c.Desc.Data, c.S.Store))

\* The pool calls: those of CpusNodeParser, then FreeCmObjDesc at
\* exit_handler, which every path after a successful CpusNodeParser reaches.
IntcExit(c, r) ==
  [Status |-> r.Status, S |-> r.S,
   Pool |-> c.Pool \o (IF EFI_ERROR(c.Status) THEN <<>> ELSE <<FreeDesc>>)]

IntcOfCpus(Fdt, c) == IntcExit(c, IntcAfterCpus(Fdt, c))

RiscVIntcInfoParser(Variant, Fdt, FdtBranch, S, U) ==
  IntcOfCpus(Fdt, CpusNodeParser(Variant, Fdt, FdtBranch, S, U))

(***************************************************************************)
(* Apic/RiscVPlicAplicParser.c and Madt/RiscVPlicAplicParser.c             *)
(***************************************************************************)
\* A controller node whose reg or source-count property cannot be parsed.
BadRegOrSources(Node) ==
  Node.regLen = 0 \/ Node.regLen % 4 > 0 \/ Node.numSources = -1

\* RiscVAplicPlicInfoParser (Apic) from node i on.  A is the loop state
\* [Status, Store, AplicId, AplicGsiBase, PlicId, PlicGsiBase]; the parser
\* declares all of Status, AplicId, AplicGsiBase, PlicId and PlicGsiBase
\* without an initialiser, so A starts from what they hold on entry.  "return 0"
\* on a malformed node is EFI_SUCCESS.  The records are built after ZeroMem
\* and the parser never writes Phandle or NumIdcs.
RECURSIVE AplicPlicLoopApic(_, _, _)
AplicPlicLoopApic(Fdt, i, A) ==
  IF i > Len(Fdt.devs) THEN A
  ELSE LET Node == Fdt.devs[i]
           IsAplic == Node.compat = "riscv,aplic" /\ IsSmodeAplic(Fdt, Node)
           IsPlic == Node.compat = "riscv,plic0" /\ Node.hasIntExt
                     /\ Len(Node.intExt) >= 1
       IN IF (IsAplic \/ IsPlic) /\ BadRegOrSources(Node)
          THEN [A EXCEPT !.Status = "EFI_SUCCESS"]
          ELSE IF IsAplic
          THEN LET AplicInfo ==
                     [Version |-> 1, Id |-> AsUint8(A.AplicId),
                      Address |-> RegAddress(Node), Size |-> RegSize(Node),
                      NumSources |-> ToUint16(Node.numSources),
                      GsiBase |-> A.AplicGsiBase, Phandle |-> 0, NumIdcs |-> 0]
               IN AplicPlicLoopApic(Fdt, i + 1,
                    [A EXCEPT !.Status = "EFI_SUCCESS",
                              !.Store = AddSingleCmObj(A.Store, "ERiscVObjAplicInfo",
                                          AplicInfo, sizeof_CM_RISCV_APLIC_INFO,
                                          "RiscVAplicPlicInfoParser", i),
                              !.AplicId = Plus(A.AplicId, 1),
                              !.AplicGsiBase = Plus(A.AplicGsiBase, AplicInfo.NumSources)])
          ELSE IF IsPlic
          THEN LET PlicInfo ==
                     [Version |-> 1, Id |-> AsUint8(A.PlicId),
                      Address |-> RegAddress(Node), Size |-> RegSize(Node),
                      NumSources |-> ToUint16(Node.numSources),
                      GsiBase |-> A.PlicGsiBase, Phandle |-> 0, NumIdcs |-> 0]
               IN AplicPlicLoopApic(Fdt, i + 1,
                    [A EXCEPT !.Status = "EFI_SUCCESS",
                              !.Store = AddSingleCmObj(A.Store, "ERiscVObjPlicInfo",
                                          PlicInfo, sizeof_CM_RISCV_PLIC_INFO,
                                          "RiscVAplicPlicInfoParser", i),
                              !.PlicId = Plus(A.PlicId, 1),
                              !.PlicGsiBase = Plus(A.PlicGsiBase, PlicInfo.NumSources)])
          ELSE AplicPlicLoopApic(Fdt, i + 1, A)

\* U.Status, U.AplicId, U.AplicGsiBase, U.PlicId, U.PlicGsiBase are what
\* the uninitialised locals hold on entry.
RiscVAplicPlicInfoParserApic(Fdt, Store, U) ==
  AplicPlicLoopApic(Fdt, 1,
    [Status |-> U.Status, Store |-> Store,
     AplicId |-> U.AplicId, AplicGsiBase |-> U.AplicGsiBase,
     PlicId |-> U.PlicId, PlicGsiBase |-> U.PlicGsiBase])

\* RiscVAplicPlicInfoParser (Madt) from node i on.  The counters start at
\* 0; only Status has no initialiser.  PlicNode keeps its initial -1, so
\* fdt_node_check_compatible (Fdt, PlicNode, "riscv,plic0") never returns 0
\* and the PLIC branch is never taken.
RECURSIVE AplicPlicLoopMadt(_, _, _)
AplicPlicLoopMadt(Fdt, i, A) ==
  IF i > Len(Fdt.devs) THEN A
  ELSE LET Node == Fdt.devs[i]
           IsAplic == Node.compat = "riscv,aplic" /\ IsSmodeAplic(Fdt, Node)
       IN IF IsAplic /\ BadRegOrSources(Node)
          THEN [A EXCEPT !.Status = "EFI_SUCCESS"]
          ELSE IF IsAplic
          THEN LET AplicInfo ==
                     [Version |-> 1, Id |-> AsUint8(A.AplicId),
                      Address |-> RegAddress(Node), Size |-> RegSize(Node),
                      NumSources |-> ToUint16(Node.numSources),
                      GsiBase |-> A.AplicGsiBase, Phandle |-> 0, NumIdcs |-> 0]
               IN AplicPlicLoopMadt(Fdt, i + 1,
                    [A EXCEPT !.Status = "EFI_SUCCESS",
                              !.Store = AddSingleCmObj(A.Store, "ERiscVObjAplicInfo",
                                          AplicInfo, sizeof_CM_RISCV_APLIC_INFO,
                                          "RiscVAplicPlicInfoParser", i),
                              !.AplicId = Plus(A.AplicId, 1),
                              !.AplicGsiBase = Plus(A.AplicGsiBase, AplicInfo.NumSources)])
          ELSE AplicPlicLoopMadt(Fdt, i + 1, A)

RiscVAplicPlicInfoParserMadt(Fdt, Store, U) ==
  AplicPlicLoopMadt(Fdt, 1,
    [Status |-> U.Status, Store |-> Store,
     AplicId |-> Known(0), AplicGsiBase |-> Known(0),
     PlicId |-> Known(0), PlicGsiBase |-> Known(0)])

(***************************************************************************)
(* Madt/RiscVRintcParser.c                                                 *)
(***************************************************************************)
\* FdtGetCompatSmodeNode (Madt) with IsIc = TRUE: the first compatible node
\* whose first interrupts-extended type cell is IRQ_S_EXT, 0 when none.
RECURSIVE FdtGetCompatSmodeIc(_, _, _)
FdtGetCompatSmodeIc(Fdt, CompatStr, i) ==
  IF i > Len(Fdt.devs) THEN 0
  ELSE IF FdtNodeIsCompatible(Fdt.devs[i], CompatStr) /\ FirstIrqIsSExt(Fdt.devs[i])
  THEN i
  ELSE FdtGetCompatSmodeIc(Fdt, CompatStr, i + 1)

\* CpuNodeParser (Madt): the IMSIC window comes as arguments and the Isa
\* record is probed before the CMO record.
CpuNodeParserMadt(Fdt, Cpu, AddressCells, S, U, ImsicCpuBaseAddr, ImsicCpuLen) ==
  IF Cpu.regLen # 4 /\ Cpu.regLen # 8
  THEN [Status |-> "EFI_ABORTED", Rintc |-> ZeroRintc, S |-> S]
  ELSE LET Rintc == [ZeroRintc EXCEPT
                       !.Flags = EFI_ACPI_6_6_RINTC_FLAG_ENABLE,
                       !.HartId = ReadHartId(Cpu, AddressCells),
                       !.Version = 1,
                       !.AcpiProcessorUid = S.ProcUid,
                       !.ExtIntCId = 0,
                       !.ImsicBaseAddress = ImsicCpuBaseAddr,
                       !.ImsicSize = ImsicCpuLen]
           S0 == [S EXCEPT !.ProcUid = S.ProcUid + 1]
           S1 == CreateCmoInfo("Madt", Cpu, CreateIsaStringInfo(Cpu, S0), U)
           S2 == CreateTimerInfo(Fdt, S1, U)
       IN [Status |-> "EFI_SUCCESS", Rintc |-> Rintc, S |-> S2]

\* The for loop of CpusNodeParser (Madt).
RECURSIVE CpusLoopMadt(_, _, _, _, _, _)
CpusLoopMadt(Fdt, AddressCells, Index, Buffer, S, U) ==
  IF Index > Len(Fdt.cpus)
  THEN [Status |-> "EFI_SUCCESS", Buffer |-> Buffer, S |-> S]
  ELSE IF ~FdtNodeIsCompatible(Fdt.cpus[Index], "riscv")
  THEN [Status |-> "EFI_UNSUPPORTED", Buffer |-> Buffer, S |-> S]
  ELSE LET r == CpuNodeParserMadt(Fdt, Fdt.cpus[Index], AddressCells, S, U, 0, 0)
       IN IF EFI_ERROR(r.Status)
          THEN [Status |-> r.Status, Buffer |-> Buffer, S |-> r.S]
          ELSE CpusLoopMadt(Fdt, AddressCells, Index + 1,
                            Append(Buffer, r.Rintc), r.S, U)

CpusNodeParserAfterLoopMadt(Fdt, r) ==
  IF EFI_ERROR(r.Status)
  THEN [Status |-> r.Status, Desc |-> NullDesc, S |-> r.S,
        Pool |-> <<AllocBuffer, FreeBuffer>>]
  ELSE [Status |-> "EFI_SUCCESS",
        Desc |-> CreateCmObjDesc("ERiscVObjRintcInfo", Len(Fdt.cpus), r.Buffer,
                                Len(Fdt.cpus) * sizeof_CM_RISCV_RINTC_INFO),
        S |-> r.S,
        Pool |-> <<AllocBuffer, AllocDesc, FreeBuffer>>]

CpusNodeParserMadt(Fdt, CpusNode, S, U) ==
  IF fdt_address_cells(Fdt, CpusNode) < 0
  THEN [Status |-> "EFI_ABORTED", Desc |-> NullDesc, S |-> S, Pool |-> <<>>]
  ELSE IF Len(Fdt.cpus) = 0
  THEN [Status |-> "EFI_NOT_FOUND", Desc |-> NullDesc, S |-> S, Pool |-> <<>>]
  ELSE CpusNodeParserAfterLoopMadt(
         Fdt, CpusLoopMadt(Fdt, fdt_address_cells(Fdt, CpusNode), 1, <<>>, S, U))

\* fdt_node_offset_by_phandle followed by fdt_parent_offset: the index of
\* the cpu node whose interrupt controller has the phandle, 0 when the
\* phandle names no cpu interrupt controller.
RECURSIVE CpuOfIntcPhandle(_, _, _)
CpuOfIntcPhandle(Fdt, Phandle, i) ==
  IF i > Len(Fdt.cpus) THEN 0
  ELSE IF Fdt.cpus[i].phandle = Phandle THEN i
  ELSE CpuOfIntcPhandle(Fdt, Phandle, i + 1)

\* 1 << n.
RECURSIVE Pow2(_)
Pow2(n) == IF n = 0 THEN 1 ELSE 2 * Pow2(n - 1)

\* "(1 << ImsicInfo.HartIndexBits) * IMSIC_MMIO_PAGE_SZ" is int arithmetic:
\* from 19 bits on the product does not fit an int, and from 32 bits on
\* neither does the shift, which is undefined.  What a build then does is
\* not fixed by the source: the division by the product traps
\* (U.Overflow = "Trap"), or the shift count is taken modulo 32 and the
\* product wraps (U.Overflow = "Wrap"), which leaves a window for a count
\* below 19 and a divisor no range holds a page of for the other counts.
ImsicOverflows(Bits) == Bits >= 19
ImsicWindow(Bits) ==
  IF Bits % 32 < 19 THEN Pow2(Bits % 32) * IMSIC_MMIO_PAGE_SZ ELSE 0
\* "Limit = ImsicBaseLen / Window".
ImsicLimit(ImsicBaseLen, Bits) ==
  IF ImsicWindow(Bits) = 0 THEN 0 ELSE ImsicBaseLen \div ImsicWindow(Bits)

\* The status of an invocation that ended in a processor exception: it
\* returns to no caller and the process makes no further call.
CpuException == "CPU exception: divide error"

\* The nested loops of ImsicRintcInfoParser (Madt): [Status, Done, Buffer, S].
\* Done is FALSE for the early "return 0" and for the goto exit_handler,
\* which both leave the descriptor NULL.
RECURSIVE ImsicLoopMadt(_, _, _, _, _, _, _, _, _)
ImsicLoopMadt(Fdt, Node, Bits, Idx, Idx1, Idx2, Buffer, S, U) ==
  LET NumpHandle == Len(Node.intExt) \div 2
      Window == ImsicWindow(Bits)
  IN IF Idx > Len(Node.reg)
     THEN [Status |-> "EFI_SUCCESS", Done |-> TRUE, Buffer |-> Buffer, S |-> S]
     ELSE IF ImsicOverflows(Bits) /\ U.Overflow = "Trap"
     THEN [Status |-> CpuException, Done |-> FALSE, Buffer |-> Buffer, S |-> S]
     ELSE IF Idx1 < ImsicLimit(Node.reg[Idx].size, Bits) /\ Idx2 < NumpHandle
     THEN LET CpuNode == CpuOfIntcPhandle(Fdt, IntExtPhandle(Node, Idx2), 1)
              Other == NodeOffsetByPhandle(Fdt, IntExtPhandle(Node, Idx2), 1)
          IN IF CpuNode = 0 /\ Other = 0
             THEN [Status |-> "EFI_SUCCESS", Done |-> FALSE, Buffer |-> Buffer, S |-> S]
             ELSE IF CpuNode = 0 \/ ~FdtNodeIsCompatible(Fdt.cpus[CpuNode], "riscv")
             THEN [Status |-> "EFI_UNSUPPORTED", Done |-> FALSE, Buffer |-> Buffer, S |-> S]
             ELSE LET r == CpuNodeParserMadt(Fdt, Fdt.cpus[CpuNode], NumpHandle, S, U,
                                             Node.reg[Idx].addr + Idx1 * Window, Window)
                  IN IF EFI_ERROR(r.Status)
                     THEN [Status |-> r.Status, Done |-> FALSE, Buffer |-> Buffer, S |-> r.S]
                     ELSE ImsicLoopMadt(Fdt, Node, Bits, Idx, Idx1 + 1, Idx2 + 1,
                                        [Buffer EXCEPT ![Idx2 + 1] = r.Rintc], r.S, U)
     ELSE ImsicLoopMadt(Fdt, Node, Bits, Idx + 1, 0, Idx2, Buffer, S, U)

\* The pool calls of ImsicRintcInfoParser (Madt) once the array is
\* allocated, r being the result of its loops: the "return 0" of an unknown
\* phandle leaves without FreePool, the goto exit_handler and the end of the
\* function pass it.
ImsicPool(r) ==
  IF r.Done THEN <<AllocBuffer, AllocDesc, FreeBuffer>>
  ELSE IF r.Status \in {"EFI_SUCCESS", CpuException} THEN <<AllocBuffer>>
  ELSE <<AllocBuffer, FreeBuffer>>

\* After the loops of ImsicRintcInfoParser (Madt) returned r: the early
\* exits, or CreateCmObjDesc and the IMSIC record of the node i.
ImsicAfterLoopMadt(i, NumpHandle, ImsicInfo, r) ==
  IF ~r.Done
  THEN [Status |-> r.Status, Desc |-> NullDesc, S |-> r.S, Pool |-> ImsicPool(r)]
  ELSE [Status |-> "EFI_SUCCESS",
        Desc |-> CreateCmObjDesc("ERiscVObjRintcInfo", NumpHandle, r.Buffer,
                                NumpHandle * sizeof_CM_RISCV_RINTC_INFO),
        S |-> [r.S EXCEPT !.Store =
                 AddSingleCmObj(r.S.Store, "ERiscVObjImsicInfo", ImsicInfo,
                                sizeof_CM_RISCV_IMSIC_INFO,
                                "ImsicRintcInfoParser", i)],
        Pool |-> ImsicPool(r)]

\* ImsicRintcInfoParser (Madt) on the node found by the caller:
\* [Status, Desc, S, Pool].
ImsicRintcInfoParserMadt(Fdt, i, S, U) ==
  LET Node == Fdt.devs[i]
      NumpHandle == Len(Node.intExt) \div 2
  IN IF Node.numIds = -1
     THEN [Status |-> "EFI_SUCCESS", Desc |-> NullDesc, S |-> S, Pool |-> <<>>]
     ELSE IF Node.regLen = 0 \/ (Node.regLen \div 4) % 4 # 0
     THEN [Status |-> "EFI_INVALID_PARAMETER", Desc |-> NullDesc, S |-> S, Pool |-> <<>>]
     ELSE IF ~Node.hasIntExt \/ Len(Node.intExt) % 2 # 0
     THEN [Status |-> "EFI_INVALID_PARAMETER", Desc |-> NullDesc, S |-> S, Pool |-> <<>>]
     ELSE IF NumpHandle = 0
     THEN [Status |-> "EFI_NOT_FOUND", Desc |-> NullDesc, S |-> S, Pool |-> <<>>]
     ELSE LET ImsicInfo ==
                [ImsicProps(Node, 0) EXCEPT
                   !.HartIndexBits = DefaultHartIndexBits(@, NumpHandle)]
          IN ImsicAfterLoopMadt(i, NumpHandle, ImsicInfo,
                                ImsicLoopMadt(Fdt, Node, ImsicInfo.HartIndexBits, 1, 0, 0,
                                              [k \in 1..NumpHandle |-> ZeroRintc], S, U))

\* RiscVRintcInfoParser (Madt): [Status, S, Pool].  The status of
\* ImsicRintcInfoParser is not tested; AddMultipleCmObj rejects the NULL
\* descriptor of a failed parse with EFI_INVALID_PARAMETER.  Pool lists
\* FreeCmObjDesc only when it is handed a descriptor.  FdtGetIntcParentNode
\* starts at FdtBranch, "the Cpus Node", and finds no interrupt parent from
\* the offset -1.
RintcAfterImsicMadt(r) ==
  IF r.Status = CpuException
  THEN [Status |-> CpuException, S |-> r.S, Pool |-> r.Pool]
  ELSE IF r.Desc.Count = 0
  THEN [Status |-> "EFI_INVALID_PARAMETER", S |-> r.S, Pool |-> r.Pool]
  ELSE [Status |-> "EFI_SUCCESS",
        S |-> [r.S EXCEPT !.Store =
                 AddMultipleCmObj(r.S.Store, r.Desc, "RiscVRintcInfoParser")],
        Pool |-> r.Pool \o <<FreeDesc>>]

RintcAfterCpusMadt(c) ==
  IF EFI_ERROR(c.Status) THEN [Status |-> c.Status, S |-> c.S, Pool |-> c.Pool]
  ELSE [Status |-> "EFI_SUCCESS",
        S |-> [c.S EXCEPT !.Store =
                 AddMultipleCmObj(c.S.Store, c.Desc, "RiscVRintcInfoParser")],
        Pool |-> c.Pool \o <<FreeDesc>>]

RintcOfImsicNodeMadt(Fdt, FdtBranch, ImsicNode, S, U) ==
  IF ImsicNode # 0
  THEN RintcAfterImsicMadt(ImsicRintcInfoParserMadt(Fdt, ImsicNode, S, U))
  ELSE IF FdtBranch = "-1" \/ ~Fdt.hasIntcParent
  THEN [Status |-> "EFI_ABORTED", S |-> S, Pool |-> <<>>]
  ELSE RintcAfterCpusMadt(CpusNodeParserMadt(Fdt, FdtBranch, S, U))

RiscVRintcInfoParserMadt(Fdt, FdtBranch, S, U) ==
  RintcOfImsicNodeMadt(Fdt, FdtBranch, FdtGetCompatSmodeIc(Fdt, "riscv,imsics", 1), S, U)

(***************************************************************************)
(* Apic/RiscVApicDispatcher.c                                              *)
(***************************************************************************)
\* RiscVApicDispatcher: the RINTC parser, any error returned; then the
\* APLIC/PLIC parser, whose EFI_NOT_FOUND is let through.  [Status, S].
\* Both are called with FdtBranch = -1.

\* After RiscVAplicPlicInfoParser returned a.
DispatcherAfterAplicPlic(r, a) ==
  [Status |-> IF EFI_ERROR(a.Status) /\ a.Status # "EFI_NOT_FOUND"
              THEN a.Status ELSE "EFI_SUCCESS",
   S |-> [r.S EXCEPT !.Store = a.Store]]

\* After the RINTC parser returned r.
DispatcherAfterRintc(Fdt, U, r) ==
  IF EFI_ERROR(r.Status) THEN r
  ELSE DispatcherAfterAplicPlic(r, RiscVAplicPlicInfoParserApic(Fdt, r.S.Store, U))

\* The dispatcher with its first call reaching RiscVIntcInfoParser, the RINTC
\* parser of its own directory, which emits PLIC and APLIC records itself.
RiscVApicDispatcherIntc(Fdt, S, U) ==
  DispatcherAfterRintc(Fdt, U, RiscVIntcInfoParser("Apic", Fdt, "-1", S, U))

\* The dispatcher calls RiscVRintcInfoParser (FdtParserHandle, -1).  The
\* one function of that name is the one of Madt/RiscVRintcParser.c (the
\* Apic file names its parser RiscVIntcInfoParser), so that is the function
\* the call reaches in a build that links; RiscVAplicPlicInfoParser is the
\* one of the dispatcher's own directory.
RiscVApicDispatcher(Fdt, S, U) ==
  DispatcherAfterRintc(Fdt, U, RiscVRintcInfoParserMadt(Fdt, "-1", S, U))

(***************************************************************************)
(* RiscVFdtHwInfoParser.c                                                  *)
(***************************************************************************)
\* The table of this file: one entry, RiscVMadtDispatcher, a function of
\* Madt/RiscVMadtDispatcher.c.  An entry is a parser entry point; what it
\* returns is an input of the loop, Returns[Index] for the entry at Index.
ArchHwInfoParserTable == <<"RiscVMadtDispatcher">>

\* ArchHwInfoParserTable[Index] (FdtParserHandle, FdtBranch): the call the
\* loop makes, [Parser, FdtBranch, Status].
ArchInvoke(Table, Index, FdtBranch, Returns) ==
  [Parser |-> Table[Index], FdtBranch |-> FdtBranch, Status |-> Returns[Index]]

\* The for loop of ArchDispatcher from table entry Index (from 1) on:
\* [Status, Calls].  Calls lists the calls made so far.  The loop is
\* written over the table it is handed, ARRAY_SIZE being Len.
RECURSIVE ArchDispatcherLoop(_, _, _, _, _)

\* After the entry at Index returned: r is the call with its status.
ArchAfterParser(Table, Index, FdtBranch, Returns, Calls, r) ==
  IF EFI_ERROR(r.Status) /\ r.Status # "EFI_NOT_FOUND"
  THEN [Status |-> r.Status, Calls |-> Append(Calls, r)]
  ELSE ArchDispatcherLoop(Table, Index + 1, FdtBranch, Returns, Append(Calls, r))

ArchDispatcherLoop(Table, Index, FdtBranch, Returns, Calls) ==
  IF Index > Len(Table)
  THEN [Status |-> "EFI_SUCCESS", Calls |-> Calls]
  ELSE ArchAfterParser(Table, Index, FdtBranch, Returns, Calls,
                       ArchInvoke(Table, Index, FdtBranch, Returns))

\* ArchDispatcher letting no error through, EFI_NOT_FOUND included.
ArchDispatcherStrict(Table, FdtBranch, Returns) ==
  LET r == ArchDispatcherLoop(Table, 1, FdtBranch, Returns, <<>>)
  IN IF \E k \in 1..Len(r.Calls) : EFI_ERROR(r.Calls[k].Status)
     THEN [r EXCEPT !.Status = "EFI_NOT_FOUND"] ELSE r

ArchDispatcher(Table, FdtBranch, Returns) ==
  ArchDispatcherLoop(Table, 1, FdtBranch, Returns, <<>>)

(***************************************************************************)
(* AcpiSsdtPcieLib/RiscV/RiscVSsdtPcieGenerator.c                          *)
(***************************************************************************)
\* The index of the first record of List with the phandle, 0 when none.
RECURSIVE FindPhandle(_, _, _)
FindPhandle(List, IntcPhandle, Index) ==
  IF Index > Len(List) THEN 0
  ELSE IF List[Index].Phandle = IntcPhandle THEN Index
  ELSE FindPhandle(List, IntcPhandle, Index + 1)

\* ArchGetGsiIrqId: the PLIC records are consulted only when the query for
\* APLIC records returns EFI_NOT_FOUND.
ArchGetGsiIrqId(Store, IrqId, IntcPhandle) ==
  LET Aplic == GetObjectList(Store, "ERiscVObjAplicInfo")
  IN IF ~EFI_ERROR(Aplic.Status)
     THEN LET a == FindPhandle(Aplic.List, IntcPhandle, 1)
          IN IF a # 0 THEN IrqId + Aplic.List[a].GsiBase ELSE IrqId
     ELSE LET Plic == GetObjectList(Store, "ERiscVObjPlicInfo")
          IN IF ~EFI_ERROR(Plic.Status)
             THEN LET b == FindPhandle(Plic.List, IntcPhandle, 1)
                  IN IF b # 0 THEN IrqId + Plic.List[b].GsiBase ELSE IrqId
             ELSE IrqId

(***************************************************************************)
(* AcpiSsdtCpuTopologyLib/RiscVSsdtCpuTopologyGenerator.c                  *)
(***************************************************************************)
\* Token dereference (GetObjectList with a token): TRUE when the store
\* holds an object of the type registered under the token.
TokenResolves(Store, ObjectId, Token) ==
  \E i \in 1..Len(Store) :
    Store[i].ObjectId = ObjectId /\ Store[i].Data[1].Token = Token

\* CreateAmlCpcNode of the common generator: dereferences CpcToken and
\* adds the _CPC object to the CPU node.
CreateAmlCpcNode(Store, RintcInfo) ==
  IF TokenResolves(Store, "ERiscVObjCpcInfo", RintcInfo.CpcToken)
  THEN "EFI_SUCCESS" ELSE "EFI_NOT_FOUND"

\* CreateAmlEtNode: the RISC-V body is "return EFI_UNSUPPORTED;".
CreateAmlEtNode(Store, RintcInfo) == "EFI_UNSUPPORTED"

\* CreateAmlCpu of the common generator, handed the record and the name
\* index: it creates the CPU device node named after CpuName whose _UID is
\* the record's AcpiProcessorUid, [Status, Node].  Creating the
\* CpuFail-th node runs out of resources (0: never).
CreateAmlCpu(RintcInfo, CpuName, CpuFail) ==
  IF CpuName + 1 = CpuFail
  THEN [Status |-> "EFI_OUT_OF_RESOURCES", Node |-> <<>>]
  ELSE [Status |-> "EFI_SUCCESS",
        Node |-> [Name |-> CpuName, Uid |-> RintcInfo.AcpiProcessorUid,
                  Cpc |-> FALSE, Et |-> FALSE]]

\* The for loop of CreateTopologyFromApic from record Index (from 1, the C
\* index plus one) on: [Status, Aml].  Aml lists the CPU nodes created,
\* each as CreateAmlCpu made it and with whether a _CPC / trace-device
\* sub-object was added.
RECURSIVE TopologyLoop(_, _, _, _, _, _)
TopologyLoop(Store, RintcInfo, Index, Status, Aml, CpuFail) ==
  IF Index > Len(RintcInfo) THEN [Status |-> Status, Aml |-> Aml]
  ELSE LET R == RintcInfo[Index]
           c == CreateAmlCpu(R, Index - 1, CpuFail)
       IN IF EFI_ERROR(c.Status) THEN [Status |-> c.Status, Aml |-> Aml]
          ELSE LET s2 == IF R.CpcToken # CM_NULL_TOKEN
                         THEN CreateAmlCpcNode(Store, R) ELSE c.Status
                   Node2 == [c.Node EXCEPT !.Cpc = R.CpcToken # CM_NULL_TOKEN
                                                   /\ ~EFI_ERROR(s2)]
               IN IF EFI_ERROR(s2) THEN [Status |-> s2, Aml |-> Append(Aml, Node2)]
                  ELSE LET s3 == IF R.EtToken # CM_NULL_TOKEN
                                 THEN CreateAmlEtNode(Store, R) ELSE s2
                           Node3 == [Node2 EXCEPT !.Et = R.EtToken # CM_NULL_TOKEN
                                                         /\ ~EFI_ERROR(s3)]
                       IN IF EFI_ERROR(s3)
                          THEN [Status |-> s3, Aml |-> Append(Aml, Node3)]
                          ELSE TopologyLoop(Store, RintcInfo, Index + 1, s3,
                                            Append(Aml, Node3), CpuFail)

\* CreateTopologyFromApic returning EFI_SUCCESS whatever the loop's status.
CreateTopologyFromApicSwallowing(Store, CpuFail) ==
  LET r == GetObjectList(Store, "ERiscVObjRintcInfo")
  IN IF EFI_ERROR(r.Status) THEN [Status |-> r.Status, Aml |-> <<>>]
     ELSE [Status |-> "EFI_SUCCESS",
           Aml |-> TopologyLoop(Store, r.List, 1, r.Status, <<>>, CpuFail).Aml]

CreateTopologyFromApic(Store, CpuFail) ==
  LET r == GetObjectList(Store, "ERiscVObjRintcInfo")
  IN IF EFI_ERROR(r.Status) THEN [Status |-> r.Status, Aml |-> <<>>]
     ELSE TopologyLoop(Store, r.List, 1, r.Status, <<>>, CpuFail)

(***************************************************************************)
(* Inputs: device trees                                                    *)
(***************************************************************************)
MaxCpus == 2
MaxDevs == 2
MaxTopoCpus == 2

\* What an uninitialised EFI_STATUS may hold, one value of each kind the
\* code's tests tell apart: EFI_SUCCESS, a warning code, a word that is no
\* status code with the high bit clear, EFI_NOT_FOUND, another error code
\* and a word that is no status code with the high bit set.
UninitStatuses ==
  {"EFI_SUCCESS", "EFI_WARN_DELETE_FAILURE", "0x00007FFDDDAB5BC0",
   "EFI_NOT_FOUND", "EFI_DEVICE_ERROR", "0xFFFFFFFFFFFFFFFF"}

\* cpu node templates; hartId and the interrupt controller's phandle are
\* set from the node's position.  regNext is the word that follows the reg
\* property in the blob: 3, the tag that opens the next property.
CpuNode(compat, regLen, isaLen, cbom, cboz, cbop) ==
  [compat |-> compat, regLen |-> regLen, regNext |-> 3, hartId |-> 0, phandle |-> 0,
   isaLen |-> isaLen, cbom |-> cbom, cboz |-> cboz, cbop |-> cbop]

CpuPlain == CpuNode("riscv", 4, 9, -1, -1, -1)
CpuCmo == CpuNode("riscv", 4, 9, 64, 32, 16)
CpuCbomOnly == CpuNode("riscv", 4, 9, 64, -1, -1)
CpuCbozOnly == CpuNode("riscv", 4, 9, -1, 64, -1)
CpuNoIsa == CpuNode("riscv", 4, -1, -1, -1, -1)
CpuBadReg == CpuNode("riscv", 16, 9, -1, -1, -1)
CpuNotRiscv == CpuNode("arm,cortex-a53", 4, 9, -1, -1, -1)
\* A cpu whose reg is two cells.
CpuWideReg == CpuNode("riscv", 8, 9, -1, -1, -1)

CpuTemplates == {CpuPlain, CpuCmo, CpuCbomOnly, CpuCbozOnly, CpuNoIsa, CpuBadReg, CpuNotRiscv}

\* cpu i (from 1) has hart id i - 1 and interrupt-controller phandle i.
Place(cpus) == [i \in DOMAIN cpus |-> [cpus[i] EXCEPT !.hartId = i - 1, !.phandle = i]]

\* Other nodes.  intExtAfter holds the two words that follow the
\* interrupts-extended property in the blob: 3, the tag that opens the next
\* property, and 4, that property's length.  regCells are the cells of reg:
\* a two-cell address and a two-cell size, or the regLen / 4 zero cells of a
\* shorter reg.  regAfter holds the three words that follow reg in the
\* blob: the tag 3, the length 4 of the next property and the offset of its
\* name in the strings block.
DevNode(compat, hasIntExt, intExt, msiParent, phandle, regLen, numSources, numIds, cannotWake) ==
  [compat |-> compat, hasIntExt |-> hasIntExt, intExt |-> intExt,
   intExtAfter |-> <<3, 4>>,
   msiParent |-> msiParent, phandle |-> phandle, regLen |-> regLen,
   reg |-> IF regLen >= 16 THEN <<[addr |-> 16777216 * phandle, size |-> 8192]>> ELSE <<>>,
   regCells |-> IF regLen >= 16 THEN <<0, 16777216 * phandle, 0, 8192>>
                ELSE [n \in 1..(regLen \div 4) |-> 0],
   regAfter |-> <<3, 4, 35>>,
   numSources |-> numSources, numIds |-> numIds, numGuestIds |-> -1,
   guestIndexBits |-> -1, hartIndexBits |-> -1, groupIndexBits |-> -1,
   groupIndexShift |-> -1,
   cannotWake |-> cannotWake, timebase |-> -1]

TimerWakes == DevNode("riscv,timer", FALSE, <<>>, 0, 0, 0, -1, -1, FALSE)
TimerCannotWake == DevNode("riscv,timer", FALSE, <<>>, 0, 0, 0, -1, -1, TRUE)
\* A timer node that carries a timebase-frequency property of its own.
TimerWithTimebase == [TimerWakes EXCEPT !.timebase = 10000000]

\* Both harts, M-mode then S-mode context each.
BothModes == <<1, IRQ_M_EXT, 1, IRQ_S_EXT, 2, IRQ_M_EXT, 2, IRQ_S_EXT>>
SOnly == <<1, IRQ_S_EXT, 2, IRQ_S_EXT>>
MOnly == <<1, IRQ_M_EXT, 2, IRQ_M_EXT>>
\* Phandle 3 names no cpu interrupt controller.
SDangling == <<1, IRQ_S_EXT, 3, IRQ_S_EXT>>

Plic32 == DevNode("riscv,plic0", TRUE, BothModes, 0, 5, 16, 32, -1, FALSE)
Plic16 == DevNode("riscv,plic0", TRUE, BothModes, 0, 6, 16, 16, -1, FALSE)
PlicDangling == DevNode("riscv,plic0", TRUE, SDangling, 0, 7, 16, 32, -1, FALSE)
PlicNoNdev == DevNode("riscv,plic0", TRUE, BothModes, 0, 8, 16, -1, -1, FALSE)
PlicMOnly == DevNode("riscv,plic0", TRUE, MOnly, 0, 9, 16, 32, -1, FALSE)
PlicBadReg == DevNode("riscv,plic0", TRUE, BothModes, 0, 10, 18, 32, -1, FALSE)
\* A PLIC that lists one S-mode context per hart and no M-mode context.
PlicSOnly == DevNode("riscv,plic0", TRUE, SOnly, 0, 4, 16, 32, -1, FALSE)
\* A PLIC whose interrupts-extended is one cell: a phandle with no type.
PlicOneCell == DevNode("riscv,plic0", TRUE, <<1>>, 0, 17, 16, 32, -1, FALSE)

\* PLICs whose reg is two cells and one cell: shorter than the 16 bytes the
\* parsers read.
PlicTwoCellReg == DevNode("riscv,plic0", TRUE, BothModes, 0, 18, 8, 32, -1, FALSE)
PlicOneCellReg == DevNode("riscv,plic0", TRUE, BothModes, 0, 29, 4, 16, -1, FALSE)

Aplic32 == DevNode("riscv,aplic", TRUE, SOnly, 0, 11, 16, 32, -1, FALSE)
Aplic16 == DevNode("riscv,aplic", TRUE, SOnly, 0, 12, 16, 16, -1, FALSE)
AplicM == DevNode("riscv,aplic", TRUE, MOnly, 0, 13, 16, 32, -1, FALSE)
AplicMsi == DevNode("riscv,aplic", FALSE, <<>>, 20, 14, 16, 32, -1, FALSE)
AplicDangling == DevNode("riscv,aplic", TRUE, SDangling, 0, 15, 16, 32, -1, FALSE)
AplicNoSources == DevNode("riscv,aplic", TRUE, SOnly, 0, 16, 16, -1, -1, FALSE)

\* APLICs whose reg is two cells and three cells.
AplicTwoCellReg == DevNode("riscv,aplic", TRUE, SOnly, 0, 19, 8, 32, -1, FALSE)
AplicThreeCellReg == DevNode("riscv,aplic", TRUE, SOnly, 0, 30, 12, 16, -1, FALSE)

ImsicS == DevNode("riscv,imsics", TRUE, SOnly, 0, 20, 16, -1, 255, FALSE)
ImsicM == DevNode("riscv,imsics", TRUE, MOnly, 0, 21, 16, -1, 255, FALSE)
ImsicDangling == DevNode("riscv,imsics", TRUE, SDangling, 0, 22, 16, -1, 255, FALSE)
ImsicNoNumIds == DevNode("riscv,imsics", TRUE, SOnly, 0, 23, 16, -1, -1, FALSE)
\* An IMSIC whose reg range has room for both of its targets, the second of
\* which names no node.
ImsicWideDangling ==
  [ImsicDangling EXCEPT !.phandle = 24,
                        !.reg = <<[addr |-> 16777216 * 24, size |-> 65536]>>,
                        !.regCells = <<0, 16777216 * 24, 0, 65536>>]

\* S-mode IMSICs that carry the optional properties: every one of them;
\* cells wider than the fields they are stored in (256 and 65543 leave 0
\* and 7); a hart-index-bits whose window overflows an int (20) and one
\* whose shift count is the width of an int (32).
ImsicAllProps ==
  [ImsicS EXCEPT !.phandle = 25, !.numGuestIds = 63, !.guestIndexBits = 1,
                 !.hartIndexBits = 1, !.groupIndexBits = 2, !.groupIndexShift = 28]
ImsicWideCells ==
  [ImsicS EXCEPT !.phandle = 26, !.numGuestIds = 65543, !.hartIndexBits = 256,
                 !.guestIndexBits = 257, !.groupIndexShift = 280]
ImsicBits20 == [ImsicS EXCEPT !.phandle = 27, !.hartIndexBits = 20]
ImsicBits32 == [ImsicS EXCEPT !.phandle = 28, !.hartIndexBits = 32]

PlicFamily ==
  {Plic32, Plic16, PlicDangling, PlicNoNdev, PlicMOnly, PlicBadReg, PlicSOnly, PlicOneCell}
AplicFamily == {Aplic32, Aplic16, AplicM, AplicMsi, AplicDangling, AplicNoSources}
ImsicFamily == {ImsicS, ImsicM, ImsicDangling, ImsicNoNumIds, ImsicWideDangling}
MixedFamily == {Plic32, Aplic32, AplicMsi, ImsicS}

Tree(tbf, cpus, devs) ==
  [addressCells |-> 1, hasIntcParent |-> TRUE, tbf |-> tbf, cpus |-> Place(cpus), devs |-> devs]

\* Trees that vary the cpu nodes.
CpuTrees == {Tree(-1, c, <<>>) : c \in SeqsUpTo(CpuTemplates, MaxCpus)}

\* Trees that vary /cpus timebase-frequency and the riscv,timer nodes, the
\* last two with an S-mode IMSIC over the harts.
TimerTrees ==
  {Tree(f, c, d) :
     f \in {-1, 10000000},
     c \in SeqsUpTo({CpuPlain, CpuBadReg}, MaxCpus) \ {<<>>},
     d \in {<<>>, <<TimerWakes>>, <<TimerCannotWake>>, <<TimerCannotWake, TimerWakes>>,
            <<TimerWithTimebase>>, <<ImsicS, TimerWakes>>}}

\* Trees that vary the interrupt controllers over two harts.
IntcTrees ==
  {Tree(-1, <<CpuPlain, CpuPlain>>, d) :
     d \in UNION {InjSeqsUpTo(F, MaxDevs) :
                    F \in {PlicFamily, AplicFamily, ImsicFamily, MixedFamily}}}

\* A tree whose two harts each carry the ISA string and the three CMO block
\* sizes, under a /cpus with timebase-frequency, and a timer node.
FullTrees == {Tree(10000000, <<CpuCmo, CpuCmo>>, <<TimerWakes>>)}

\* Trees that vary /cpus #address-cells against the width of the cpus' reg:
\* absent (-1), out of range (0 and 5) and in range, over harts that carry
\* the singleton properties under a /cpus with timebase-frequency.
AddressCellTrees ==
  {[Tree(f, <<c, c>>, <<>>) EXCEPT !.addressCells = a] :
     f \in {-1, 10000000}, c \in {CpuPlain, CpuWideReg, CpuCmo}, a \in {-1, 0, 1, 2, 3, 5}}

\* Trees that vary the optional properties of an S-mode IMSIC.
ImsicPropTrees ==
  {Tree(-1, <<CpuPlain, CpuPlain>>, <<d>>) :
     d \in {ImsicAllProps, ImsicWideCells, ImsicBits20, ImsicBits32}}

\* Trees for the dispatcher: an S-mode IMSIC over the two harts, followed
\* by up to MaxDevs PLIC and APLIC nodes.
DispatcherTrees ==
  {Tree(-1, <<CpuPlain, CpuPlain>>, <<ImsicS>> \o d) :
     d \in InjSeqsUpTo({Plic32, Plic16, PlicNoNdev, Aplic32, Aplic16, AplicM}, MaxDevs)}

\* Trees whose PLIC and APLIC nodes have a reg shorter than 16 bytes, alone
\* and behind an S-mode IMSIC.
ShortRegFamily == {PlicTwoCellReg, PlicOneCellReg, AplicTwoCellReg, AplicThreeCellReg}
ShortRegTrees ==
  {Tree(-1, <<CpuPlain, CpuPlain>>, p \o d) :
     p \in {<<>>, <<ImsicS>>}, d \in InjSeqsUpTo(ShortRegFamily, MaxDevs) \ {<<>>}}

DeviceTrees ==
  CpuTrees \cup TimerTrees \cup IntcTrees \cup FullTrees \cup AddressCellTrees
    \cup ImsicPropTrees \cup DispatcherTrees \cup ShortRegTrees

EmptyTree == Tree(-1, <<>>, <<>>)

\* What the locals declared without an initialiser hold on entry to
\* invocation Call: the three Ret of RhctCmoGetBlockSize, the wake flag of
\* the local TimerInfo, the counters and the Status of
\* RiscVAplicPlicInfoParser.
HeldLocals(Call, Status) ==
  [Ret |-> <<HeldValue("Ret (cbom)", Call), HeldValue("Ret (cboz)", Call),
             HeldValue("Ret (cbop)", Call)>>,
   Wake |-> HeldValue("TimerInfo.TimerCannotWakeCpu", Call),
   Status |-> Status,
   AplicId |-> HeldValue("AplicId", Call),
   AplicGsiBase |-> HeldValue("AplicGsiBase", Call),
   PlicId |-> HeldValue("PlicId", Call),
   PlicGsiBase |-> HeldValue("PlicGsiBase", Call),
   Overflow |-> "Wrap"]

\* What a build does with the overflowing window arithmetic of the Madt
\* ImsicRintcInfoParser.
Overflows == {"Wrap", "Trap"}

\* The RINTC parsers have no uninitialised status.
RintcUninit(Call) ==
  {[HeldLocals(Call, "EFI_SUCCESS") EXCEPT !.Overflow = o] : o \in Overflows}

AplicPlicUninit(Call) == {HeldLocals(Call, st) : st \in UninitStatuses}

\* A dispatcher runs a RINTC parser and an APLIC/PLIC parser.
DispatcherUninit(Call) ==
  {[HeldLocals(Call, st) EXCEPT !.Overflow = o] : st \in UninitStatuses, o \in Overflows}

(***************************************************************************)
(* Inputs: stores for the generators                                       *)
(***************************************************************************)
CtrlRecord(Phandle, GsiBase, NumSources, Id) ==
  [Version |-> 1, Id |-> Id, Address |-> 16777216 * Phandle, Size |-> 8192,
   NumSources |-> NumSources, GsiBase |-> GsiBase, Phandle |-> Phandle, NumIdcs |-> 0]

AplicParts ==
  {<<>>,
   <<[ObjectId |-> "ERiscVObjAplicInfo", Count |-> 1, Size |-> sizeof_CM_RISCV_APLIC_INFO,
      Data |-> <<CtrlRecord(11, 0, 32, 0)>>, By |-> "platform", Node |-> 0]>>,
   <<[ObjectId |-> "ERiscVObjAplicInfo", Count |-> 1, Size |-> sizeof_CM_RISCV_APLIC_INFO,
      Data |-> <<CtrlRecord(11, 0, 32, 0)>>, By |-> "platform", Node |-> 0],
     [ObjectId |-> "ERiscVObjAplicInfo", Count |-> 1, Size |-> sizeof_CM_RISCV_APLIC_INFO,
      Data |-> <<CtrlRecord(12, 32, 16, 1)>>, By |-> "platform", Node |-> 0]>>}

PlicParts ==
  {<<>>,
   <<[ObjectId |-> "ERiscVObjPlicInfo", Count |-> 1, Size |-> sizeof_CM_RISCV_PLIC_INFO,
      Data |-> <<CtrlRecord(5, 0, 32, 0)>>, By |-> "platform", Node |-> 0]>>,
   <<[ObjectId |-> "ERiscVObjPlicInfo", Count |-> 1, Size |-> sizeof_CM_RISCV_PLIC_INFO,
      Data |-> <<CtrlRecord(5, 0, 32, 0)>>, By |-> "platform", Node |-> 0],
     [ObjectId |-> "ERiscVObjPlicInfo", Count |-> 1, Size |-> sizeof_CM_RISCV_PLIC_INFO,
      Data |-> <<CtrlRecord(6, 32, 16, 1)>>, By |-> "platform", Node |-> 0]>>}

\* Tokens 1 (a CPC record) and 3 (a trace-device record) resolve; 2 and 4
\* name nothing.
TokenObjects ==
  <<[ObjectId |-> "ERiscVObjCpcInfo", Count |-> 1, Size |-> 0,
     Data |-> <<[Token |-> 1]>>, By |-> "platform", Node |-> 0],
    [ObjectId |-> "EtInfo", Count |-> 1, Size |-> 0,
     Data |-> <<[Token |-> 3]>>, By |-> "platform", Node |-> 0]>>

TokenPairs == {<<0, 0>>, <<1, 0>>, <<2, 0>>, <<0, 3>>, <<0, 4>>, <<1, 3>>}

\* The AcpiProcessorUid of the first record: the records of a first parser
\* invocation count from 0, those of a later one from where it left off.
UidBases == {0, 2}

RintcParts ==
  {IF Len(t) = 0 THEN <<>>
   ELSE <<[ObjectId |-> "ERiscVObjRintcInfo", Count |-> Len(t),
           Size |-> Len(t) * sizeof_CM_RISCV_RINTC_INFO,
           Data |-> [i \in DOMAIN t |->
                       [ZeroRintc EXCEPT !.Version = 1, !.Flags = 1,
                                         !.HartId = Uint64(0, i - 1),
                                         !.AcpiProcessorUid = u + i - 1,
                                         !.IntcPhandle = i,
                                         !.CpcToken = t[i][1], !.EtToken = t[i][2]]],
           By |-> "platform", Node |-> 0]>> :
     t \in SeqsUpTo(TokenPairs, MaxTopoCpus), u \in UidBases}

GenStores ==
  {a \o p \o r \o TokenObjects : a \in AplicParts, p \in PlicParts, r \in RintcParts}

IrqIds == {0, 5}
QueryPhandles == {5, 6, 11, 12, 99}

\* Arguments of RhctCmoGetBlockSize: 2^k; TLC integers end below 2^31.
CmoLog2s == 0..30

(***************************************************************************)
(* State machine                                                           *)
(***************************************************************************)
VerifyIdle ==
  /\ Pcd = FALSE
  /\ Presence = [i \in VerifyIdx |-> 0]
  /\ vPhase = "boot"
  /\ Installed = <<>>
  /\ LocateStatus = "EFI_SUCCESS"
  /\ AcpiSdt = "protocol"
  /\ vDeclared = <<>>
  /\ vStatus = "EFI_SUCCESS"
  /\ vLog = <<>>

\* Before the first parser invocation: the function-static variables hold
\* their load-time values.
StaticsInit ==
  /\ ProcUid = 0
  /\ FoundIsa = FALSE
  /\ FoundTimer = FALSE
  /\ FoundCmo = FALSE
  /\ pPhase = "boot"
  /\ pOp = "none"
  /\ pStatus = "EFI_SUCCESS"
  /\ pMark = 0
  /\ pPool = <<>>

ParseIdle ==
  /\ variant = "Apic"
  /\ fdt = EmptyTree
  /\ store = <<>>
  /\ StaticsInit

GenIdle ==
  /\ gOp = "none"
  /\ gIn = <<0, 0>>
  /\ gOut = [Value |-> 0, Status |-> "EFI_SUCCESS", Aml |-> <<>>]

\* cmoOut before the call.
NotCalled == Known(-1)

CmoIdle ==
  /\ cmoVal = 1
  /\ cmoOut = NotCalled

UtilIdle ==
  /\ uOp = "none"
  /\ uIn = <<>>
  /\ uOut = <<>>

VerifyInit ==
  /\ Pcd \in BOOLEAN
  /\ Presence = [i \in VerifyIdx |-> 0]
  /\ vPhase = "boot"
  /\ Installed \in InstalledLists
  /\ \E o \in LocateOutcomes : LocateStatus = o[1] /\ AcpiSdt = o[2]
  /\ vDeclared = <<>>
  /\ vStatus = "EFI_SUCCESS"
  /\ vLog = <<>>
  /\ ParseIdle /\ GenIdle /\ CmoIdle /\ UtilIdle

\* One call of VerifyMandatoryTablesArePresent.
VerifyCall ==
  /\ vPhase # "again"
  /\ \E d \in DeclaredLists :
       LET r == VerifyMandatoryTablesArePresent(Presence, d, Installed, Pcd,
                                                 LocateStatus, AcpiSdt)
       IN /\ Presence' = r.Presence
          /\ vStatus' = r.Status
          /\ vLog' = r.Log
          /\ vDeclared' = d
  /\ vPhase' = IF vPhase = "boot" THEN "first" ELSE "again"
  /\ UNCHANGED <<Pcd, Installed, LocateStatus, AcpiSdt, parseVars, genVars, cmoVars, utilVars>>

VerifyNext == VerifyCall

SpecVerify == VerifyInit /\ [][VerifyNext]_vars

\* The parser state as the operators take it.
Statics ==
  [ProcUid |-> ProcUid, FoundIsa |-> FoundIsa, FoundTimer |-> FoundTimer,
   FoundCmo |-> FoundCmo, Store |-> store]

\* The effect of a parser entry point that returned r = [Status, S].
Returned(Op, r) ==
  /\ pOp' = Op
  /\ pStatus' = r.Status
  /\ pMark' = Len(store)
  /\ pPool' = IF Op \in {"RiscVIntcInfoParser", "RiscVRintcInfoParser"} THEN r.Pool ELSE <<>>
  /\ store' = r.S.Store
  /\ ProcUid' = r.S.ProcUid
  /\ FoundIsa' = r.S.FoundIsa
  /\ FoundTimer' = r.S.FoundTimer
  /\ FoundCmo' = r.S.FoundCmo
  /\ pPhase' = IF pPhase = "boot" THEN "first" ELSE "again"
  /\ UNCHANGED <<variant, fdt, verifyVars, genVars, cmoVars, utilVars>>

\* The builds: the parsers of the Apic directory, those of the Madt
\* directory, and the Apic dispatcher with the two functions it calls, the
\* Apic RiscVAplicPlicInfoParser and the Madt RiscVRintcInfoParser.
Builds == {"Apic", "Madt", "ApicDispatcher"}

\* A further call can be made: at most two per process, none after a
\* processor exception.
CanCall == pPhase # "again" /\ pStatus # CpuException
\* The number of the invocation about to run.
Invocation == IF pPhase = "boot" THEN 1 ELSE 2

ParseInit ==
  /\ variant \in Builds
  /\ fdt \in DeviceTrees
  /\ store = <<>>
  /\ StaticsInit
  /\ VerifyIdle /\ GenIdle /\ CmoIdle /\ UtilIdle

\* The RINTC parsers are handed the /cpus node when called on their own.
CallRiscVIntcInfoParser ==
  /\ variant = "Apic" /\ CanCall
  /\ \E U \in RintcUninit(Invocation) :
       Returned("RiscVIntcInfoParser",
                RiscVIntcInfoParser("Apic", fdt, "/cpus", Statics, U))

CallRiscVAplicPlicInfoParserApic ==
  /\ variant \in {"Apic", "ApicDispatcher"} /\ CanCall
  /\ \E U \in AplicPlicUninit(Invocation) :
       LET a == RiscVAplicPlicInfoParserApic(fdt, store, U)
       IN Returned("RiscVAplicPlicInfoParser",
                   [Status |-> a.Status, S |-> [Statics EXCEPT !.Store = a.Store]])

CallRiscVApicDispatcher ==
  /\ variant = "ApicDispatcher" /\ CanCall
  /\ \E U \in DispatcherUninit(Invocation) :
       Returned("RiscVApicDispatcher", RiscVApicDispatcher(fdt, Statics, U))

CallRiscVRintcInfoParserMadt ==
  /\ variant \in {"Madt", "ApicDispatcher"} /\ CanCall
  /\ \E U \in RintcUninit(Invocation) :
       Returned("RiscVRintcInfoParser",
                RiscVRintcInfoParserMadt(fdt, "/cpus", Statics, U))

CallRiscVAplicPlicInfoParserMadt ==
  /\ variant = "Madt" /\ CanCall
  /\ \E U \in AplicPlicUninit(Invocation) :
       LET a == RiscVAplicPlicInfoParserMadt(fdt, store, U)
       IN Returned("RiscVAplicPlicInfoParser",
                   [Status |-> a.Status, S |-> [Statics EXCEPT !.Store = a.Store]])

ParseNext ==
  \/ CallRiscVIntcInfoParser
  \/ CallRiscVAplicPlicInfoParserApic
  \/ CallRiscVApicDispatcher
  \/ CallRiscVRintcInfoParserMadt
  \/ CallRiscVAplicPlicInfoParserMadt

SpecParse == ParseInit /\ [][ParseNext]_vars

GenInit ==
  /\ variant = "Apic"
  /\ fdt = EmptyTree
  /\ store \in GenStores
  /\ StaticsInit
  /\ VerifyIdle /\ GenIdle /\ CmoIdle /\ UtilIdle

CallArchGetGsiIrqId ==
  /\ \E IrqId \in IrqIds, IntcPhandle \in QueryPhandles :
       /\ gOp' = "ArchGetGsiIrqId"
       /\ gIn' = <<IrqId, IntcPhandle>>
       /\ gOut' = [Value |-> ArchGetGsiIrqId(store, IrqId, IntcPhandle),
                   Status |-> "EFI_SUCCESS", Aml |-> <<>>]
  /\ UNCHANGED <<verifyVars, parseVars, cmoVars, utilVars>>

CallCreateTopologyFromApic ==
  /\ \E CpuFail \in 0..MaxTopoCpus :
       LET r == CreateTopologyFromApic(store, CpuFail)
       IN /\ gOp' = "CreateTopologyFromApic"
          /\ gIn' = <<CpuFail, 0>>
          /\ gOut' = [Value |-> 0, Status |-> r.Status, Aml |-> r.Aml]
  /\ UNCHANGED <<verifyVars, parseVars, cmoVars, utilVars>>

GenNext ==
  \/ CallArchGetGsiIrqId
  \/ CallCreateTopologyFromApic

SpecGen == GenInit /\ [][GenNext]_vars

CmoInit ==
  /\ cmoVal \in {Pow2(k) : k \in CmoLog2s}
  /\ cmoOut = NotCalled
  /\ variant \in {"Apic", "Madt"}
  /\ fdt = EmptyTree
  /\ store = <<>>
  /\ StaticsInit
  /\ VerifyIdle /\ GenIdle /\ UtilIdle

CallRhctCmoGetBlockSize ==
  /\ cmoOut = NotCalled
  /\ cmoOut' = RhctCmoGetBlockSize(variant, cmoVal, HeldValue("Ret", 1))
  /\ UNCHANGED <<cmoVal, verifyVars, parseVars, genVars, utilVars>>

CmoNext == CallRhctCmoGetBlockSize

SpecCmo == CmoInit /\ [][CmoNext]_vars

(***************************************************************************)
(* DynamicPlatRepoLib/CmObjectTokenFixer.c                                 *)
(*                                                                         *)
(* A descriptor is [Null, ObjectId, Data]: Null says the pointer is NULL   *)
(* (the other fields are then never read); ObjectId is the pair            *)
(* [NameSpace, Id] that GET_CM_NAMESPACE_ID and GET_CM_OBJECT_ID take      *)
(* apart, Data is the first object: its Token field and the rest of it.    *)
(***************************************************************************)
GET_CM_NAMESPACE_ID(ObjectId) == ObjectId.NameSpace
GET_CM_OBJECT_ID(ObjectId) == ObjectId.Id

\* The table, entry i + 1 for Arm object id i.
TokenFixer ==
  << "NULL", "NULL", "NULL", "NULL", "NULL", "NULL", "NULL", "NULL", "NULL",
     "NULL", "NULL", "NULL", "NULL", "NULL", "NULL", "NULL", "NULL", "NULL",
     "TokenFixerItsGroup", "TokenFixerNamedComponentNode",
     "TokenFixerRootComplexNode", "TokenFixerNotImplemented",
     "TokenFixerSmmuV3Node", "TokenFixerNotImplemented",
     "NULL", "NULL", "NULL",
     "TokenFixerNotImplemented", "TokenFixerNotImplemented",
     "TokenFixerNotImplemented",
     "NULL", "NULL", "NULL", "NULL", "NULL", "NULL", "NULL", "NULL", "NULL",
     "NULL" >>

\* TokenFixer is declared with EArmObjMax elements and initialised with 40.
EArmObjMax == Len(TokenFixer)

\* The fixers: [Status, Desc].
TokenFixerNotImplemented(CmObject, Token) ==
  [Status |-> "EFI_UNSUPPORTED", Desc |-> CmObject]

TokenFixerItsGroup(CmObject, Token) ==
  [Status |-> "EFI_SUCCESS", Desc |-> [CmObject EXCEPT !.Data.Token = Token]]

TokenFixerNamedComponentNode(CmObject, Token) ==
  [Status |-> "EFI_SUCCESS", Desc |-> [CmObject EXCEPT !.Data.Token = Token]]

TokenFixerRootComplexNode(CmObject, Token) ==
  [Status |-> "EFI_SUCCESS", Desc |-> [CmObject EXCEPT !.Data.Token = Token]]

\* TokenFixerSmmuV3Node leaving the object alone.
TokenFixerSmmuV3NodeIdle(CmObject, Token) ==
  [Status |-> "EFI_SUCCESS", Desc |-> CmObject]

TokenFixerSmmuV3Node(CmObject, Token) ==
  [Status |-> "EFI_SUCCESS", Desc |-> [CmObject EXCEPT !.Data.Token = Token]]

\* TokenFixerFunc (CmObjDesc, Token) for a non-NULL table entry.
TokenFixerFunc(Name, CmObject, Token) ==
  CASE Name = "TokenFixerItsGroup" -> TokenFixerItsGroup(CmObject, Token)
    [] Name = "TokenFixerNamedComponentNode" -> TokenFixerNamedComponentNode(CmObject, Token)
    [] Name = "TokenFixerRootComplexNode" -> TokenFixerRootComplexNode(CmObject, Token)
    [] Name = "TokenFixerSmmuV3Node" -> TokenFixerSmmuV3Node(CmObject, Token)
    [] Name = "TokenFixerNotImplemented" -> TokenFixerNotImplemented(CmObject, Token)

\* FixupCmObjectSelfToken: [Status, Desc].
FixupCmObjectSelfToken(CmObjDesc, Token) ==
  IF CmObjDesc.Null
  THEN [Status |-> "EFI_INVALID_PARAMETER", Desc |-> CmObjDesc]
  ELSE IF GET_CM_NAMESPACE_ID(CmObjDesc.ObjectId) # "EObjNameSpaceArm"
  THEN [Status |-> "EFI_UNSUPPORTED", Desc |-> CmObjDesc]
  ELSE IF GET_CM_OBJECT_ID(CmObjDesc.ObjectId) >= EArmObjMax
  THEN [Status |-> "EFI_INVALID_PARAMETER", Desc |-> CmObjDesc]
  ELSE LET Name == TokenFixer[GET_CM_OBJECT_ID(CmObjDesc.ObjectId) + 1]
       IN IF Name # "NULL"
          THEN LET r == TokenFixerFunc(Name, CmObjDesc, Token)
               IN IF EFI_ERROR(r.Status) THEN r
                  ELSE [Status |-> "EFI_SUCCESS", Desc |-> r.Desc]
          ELSE [Status |-> "EFI_SUCCESS", Desc |-> CmObjDesc]

\* Inputs: object ids up to MaxObjIdPast past the table, two values for
\* each of the token already in the object, the rest of it and the token
\* handed in.
MaxObjIdPast == 2
NameSpaces == {"EObjNameSpaceStandard", "EObjNameSpaceArm", "EObjNameSpaceRiscV"}
NullFixerDesc ==
  [Null |-> TRUE, ObjectId |-> [NameSpace |-> "EObjNameSpaceStandard", Id |-> 0],
   Data |-> [Token |-> 0, Rest |-> 0]]
FixerDescs ==
  {NullFixerDesc} \cup
  {[Null |-> FALSE, ObjectId |-> [NameSpace |-> n, Id |-> i],
    Data |-> [Token |-> t, Rest |-> r]] :
     n \in NameSpaces, i \in 0..(EArmObjMax + MaxObjIdPast - 1), t \in {0, 5}, r \in {3, 4}}
FixerTokens == {5, 9}

(***************************************************************************)
(* AcpiFadtLib: RiscV/RiscVFadtGenerator.c and RiscVFadtGenerator.c        *)
(*                                                                         *)
(* A FADT is [Flags, Rest]: Flags the set of flag bits that are set (an OR *)
(* of bits is the union), Rest every other field of the table.             *)
(***************************************************************************)
FADT_FLAGS == {"EFI_ACPI_6_5_HW_REDUCED_ACPI", "EFI_ACPI_6_5_LOW_POWER_S0_IDLE_CAPABLE"}

\* FadtArchUpdate (RiscV/RiscVFadtGenerator.c): [Status, Fadt].
FadtArchUpdate(CfgMgrProtocol, Fadt) ==
  [Status |-> "EFI_SUCCESS", Fadt |-> [Fadt EXCEPT !.Flags = FADT_FLAGS]]

\* FadtAddArchInfo (RiscVFadtGenerator.c), the name FadtGenerator.h
\* declares: [Status, Fadt].
FadtAddArchInfo(CfgMgrProtocol, Fadt) ==
  [Status |-> "EFI_SUCCESS", Fadt |-> Fadt]

\* Inputs: both pointers non-null; the protocol stands for the store behind
\* it.
FadtFlagBits == FADT_FLAGS \cup {"EFI_ACPI_6_5_WBINVD"}
FadtInputs == {[Flags |-> f, Rest |-> r] : f \in SUBSET FadtFlagBits, r \in {0, 1}}
CfgMgrProtocols == {"EmptyStore", "FullStore"}

(***************************************************************************)
(* TableHelperLib/ConfigurationManagerObjectParser.c                       *)
(*                                                                         *)
(* A parser is a sequence of fields [Length, Kind, Sub]: Kind "Format" for *)
(* a field printed through its format string, "PrintString", "PrintChar4", *)
(* "PrintChar6" or "PrintChar8" for one handed to that formatter, "SubObj" *)
(* for one with a sub-object parser Sub.  What the printing reads of Data  *)
(* is kept as <<offset, length>> pairs.                                    *)
(***************************************************************************)
Field(Length, Kind, Sub) == [Length |-> Length, Kind |-> Kind, Sub |-> Sub]

sizeof_GENERIC_ADDRESS_STRUCTURE == 12

AcpiGenericAddressParser ==
  << Field(1, "Format", "NULL"), Field(1, "Format", "NULL"),
     Field(1, "Format", "NULL"), Field(1, "Format", "NULL"),
     Field(8, "Format", "NULL") >>

CmArchCommonPciAddressMapInfoParser ==
  << Field(1, "Format", "NULL"), Field(8, "Format", "NULL"),
     Field(8, "Format", "NULL"), Field(8, "Format", "NULL") >>

CmArchCommonLpiInfoParser ==
  << Field(4, "Format", "NULL"), Field(4, "Format", "NULL"),
     Field(4, "Format", "NULL"), Field(4, "Format", "NULL"),
     Field(4, "Format", "NULL"), Field(4, "Format", "NULL"),
     Field(1, "Format", "NULL"), Field(8, "Format", "NULL"),
     Field(sizeof_GENERIC_ADDRESS_STRUCTURE, "SubObj", "AcpiGenericAddressParser"),
     Field(sizeof_GENERIC_ADDRESS_STRUCTURE, "SubObj", "AcpiGenericAddressParser"),
     Field(sizeof_GENERIC_ADDRESS_STRUCTURE, "SubObj", "AcpiGenericAddressParser"),
     Field(16, "PrintString", "NULL") >>

CmArmBootArchInfoParser == << Field(2, "Format", "NULL") >>

CmArmGicDInfoParser ==
  << Field(8, "Format", "NULL"), Field(4, "Format", "NULL"),
     Field(1, "Format", "NULL") >>

sizeof_ACPI_TABLE_GENERATOR_ID == 4
sizeof_SMBIOS_TABLE_GENERATOR_ID == 4
sizeof_pointer == 8

StdObjCfgMgrInfoParser ==
  << Field(4, "Format", "NULL"), Field(6, "PrintChar6", "NULL") >>

StdObjAcpiTableInfoParser ==
  << Field(4, "PrintChar4", "NULL"), Field(1, "Format", "NULL"),
     Field(sizeof_ACPI_TABLE_GENERATOR_ID, "Format", "NULL"),
     Field(sizeof_pointer, "Format", "NULL"),
     Field(8, "PrintChar8", "NULL"), Field(4, "Format", "NULL"),
     Field(1, "Format", "NULL") >>

StdObjSmbiosTableInfoParser ==
  << Field(sizeof_SMBIOS_TABLE_GENERATOR_ID, "Format", "NULL"),
     Field(sizeof_pointer, "Format", "NULL") >>

\* The parser behind a name; <<>> is the NULL parser of a reserved entry.
ParserNamed(Name) ==
  CASE Name = "AcpiGenericAddressParser" -> AcpiGenericAddressParser
    [] Name = "CmArchCommonPciAddressMapInfoParser" -> CmArchCommonPciAddressMapInfoParser
    [] Name = "CmArchCommonLpiInfoParser" -> CmArchCommonLpiInfoParser
    [] Name = "CmArmBootArchInfoParser" -> CmArmBootArchInfoParser
    [] Name = "CmArmGicDInfoParser" -> CmArmGicDInfoParser
    [] Name = "StdObjCfgMgrInfoParser" -> StdObjCfgMgrInfoParser
    [] Name = "StdObjAcpiTableInfoParser" -> StdObjAcpiTableInfoParser
    [] Name = "StdObjSmbiosTableInfoParser" -> StdObjSmbiosTableInfoParser
    [] OTHER -> <<>>

\* The entries of ArchCommonNamespaceObjectParser the model parses, by
\* object id; the reserved entry has no parser.
ArchCommonNamespaceObjectParser(ObjId) ==
  CASE ObjId = "EArchCommonObjReserved" -> "NULL"
    [] ObjId = "EArchCommonObjPciAddressMapInfo" -> "CmArchCommonPciAddressMapInfoParser"
    [] ObjId = "EArchCommonObjLpiInfo" -> "CmArchCommonLpiInfoParser"

\* The entries of ArmNamespaceObjectParser the model parses, by object id.
ArmNamespaceObjectParser(ObjId) ==
  CASE ObjId = "EArmObjReserved" -> "NULL"
    [] ObjId = "EArmObjBootArchInfo" -> "CmArmBootArchInfoParser"
    [] ObjId = "EArmObjGicDInfo" -> "CmArmGicDInfoParser"

\* ESTD_OBJECT_ID: the value of an object id of the Standard namespace.
EStdObjMax == 17
EStdObjValue(ObjId) ==
  CASE ObjId = "EStdObjCfgMgrInfo" -> 0
    [] ObjId = "EStdObjAcpiTableList" -> 1
    [] ObjId = "EStdObjSmbiosTableList" -> 2
    [] ObjId = "EStdObjBootArchInfo" -> 3
    [] ObjId = "EStdObjPowerManagementProfileInfo" -> 4
    [] ObjId = "EStdObjCmRef" -> 16
    [] ObjId = "EStdObjMax" -> EStdObjMax

\* StdNamespaceObjectParser, indexed by the id's value (from 1 here): three
\* parsers and the reserved entry written for EStdObjMax, which is the
\* entry id 3 reaches.
StdNamespaceObjectParser ==
  << "StdObjCfgMgrInfoParser", "StdObjAcpiTableInfoParser",
     "StdObjSmbiosTableInfoParser", "NULL" >>

\* The switch of ParseCmObjDesc: the name of the parser of the array entry
\* the object id selects, "NULL" for an entry without parser, NotParsed
\* when the function returns from the switch.
NotParsed == "return"
ParserArrayOf(NameSpaceId, ObjId) ==
  CASE NameSpaceId = "EObjNameSpaceStandard" ->
         IF EStdObjValue(ObjId) >= EStdObjMax THEN NotParsed
         ELSE IF EStdObjValue(ObjId) >= Len(StdNamespaceObjectParser) THEN NotParsed
         ELSE StdNamespaceObjectParser[EStdObjValue(ObjId) + 1]
    [] NameSpaceId = "EObjNameSpaceArm" ->
         IF ObjId = "EArmObjMax" THEN NotParsed
         ELSE ArmNamespaceObjectParser(ObjId)
    [] NameSpaceId = "EObjNameSpaceArchCommon" ->
         IF ObjId = "EArchCommonObjMax" THEN NotParsed
         ELSE ArchCommonNamespaceObjectParser(ObjId)
    [] OTHER -> NotParsed

\* PrintString: "%a" reads from Ptr up to and including the first NUL,
\* which is Nul bytes into the string.
PrintString(Ptr, Nul) == <<Ptr, Nul + 1>>

\* PrintChar4, PrintChar6, PrintChar8: Ptr[0] to Ptr[N - 1].
PrintChar4(Ptr) == <<Ptr, 4>>
PrintChar6(Ptr) == <<Ptr, 6>>
PrintChar8(Ptr) == <<Ptr, 8>>

\* What printing a field without sub-object parser reads: the formatter's
\* reads, or Length bytes for the lengths the switch knows.
PrintLeaf(f, Data, Nul) ==
  IF f.Kind = "PrintString" THEN <<PrintString(Data, Nul)>>
  ELSE IF f.Kind = "PrintChar4" THEN <<PrintChar4(Data)>>
  ELSE IF f.Kind = "PrintChar6" THEN <<PrintChar6(Data)>>
  ELSE IF f.Kind = "PrintChar8" THEN <<PrintChar8(Data)>>
  ELSE IF f.Length \in {1, 2, 4, 8} THEN <<(<<Data, f.Length>>)>>
  ELSE <<>>

\* PrintCmObjDesc from field Index on (from 1): [Remaining, Reads].  Data is
\* the offset of the field in the buffer, Nul the position of the first NUL
\* in the object's string field.
RECURSIVE PrintFields(_, _, _, _, _, _)
PrintFields(Parser, Index, Data, RemainingSize, Nul, Reads) ==
  IF Index > Len(Parser) THEN [Remaining |-> RemainingSize, Reads |-> Reads]
  ELSE LET f == Parser[Index]
           Left == RemainingSize - f.Length
       IN IF Left < 0 THEN [Remaining |-> Left, Reads |-> Reads]
          ELSE LET Now == IF f.Kind = "SubObj"
                          THEN PrintFields(ParserNamed(f.Sub), 1, Data, f.Length,
                                           Nul, <<>>).Reads
                          ELSE PrintLeaf(f, Data, Nul)
               IN PrintFields(Parser, Index + 1, Data + f.Length, Left, Nul,
                              Reads \o Now)

PrintCmObjDesc(Data, Parser, ItemCount, RemainingSize, Nul) ==
  IF ItemCount = 0 THEN [Remaining |-> RemainingSize, Reads |-> <<>>]
  ELSE PrintFields(Parser, 1, Data, RemainingSize, Nul, <<>>)

\* The for loop of ParseCmObjDesc from object ObjIndex on (from 0):
\* [Remaining, Reads, Starts]; Starts lists the offsets handed to
\* PrintCmObjDesc.
RECURSIVE ParseObjects(_, _, _, _, _, _, _)
ParseObjects(CmObjDesc, ParserName, ObjIndex, RemainingSize, Offset, Reads, Starts) ==
  IF ObjIndex >= CmObjDesc.Count
  THEN [Remaining |-> RemainingSize, Reads |-> Reads, Starts |-> Starts]
  ELSE IF ParserName = "NULL"
  THEN ParseObjects(CmObjDesc, ParserName, ObjIndex + 1, 0, Offset, Reads, Starts)
  ELSE LET r == PrintCmObjDesc(Offset, ParserNamed(ParserName),
                               Len(ParserNamed(ParserName)), RemainingSize,
                               CmObjDesc.Nul[ObjIndex + 1])
       IN IF r.Remaining > CmObjDesc.Size \/ r.Remaining < 0
          THEN [Remaining |-> r.Remaining, Reads |-> Reads \o r.Reads,
                Starts |-> Append(Starts, Offset)]
          ELSE ParseObjects(CmObjDesc, ParserName, ObjIndex + 1, r.Remaining,
                            CmObjDesc.Size - r.Remaining, Reads \o r.Reads,
                            Append(Starts, Offset))

\* ParseCmObjDesc: [Remaining, Reads, Starts].  A descriptor is [Null,
\* DataNull, NameSpace, ObjId, Count, Size, Nul].
ParseCmObjDesc(CmObjDesc) ==
  IF CmObjDesc.Null \/ CmObjDesc.DataNull
  THEN [Remaining |-> 0, Reads |-> <<>>, Starts |-> <<>>]
  ELSE IF ParserArrayOf(CmObjDesc.NameSpace, CmObjDesc.ObjId) = NotParsed
  THEN [Remaining |-> 0, Reads |-> <<>>, Starts |-> <<>>]
  ELSE ParseObjects(CmObjDesc, ParserArrayOf(CmObjDesc.NameSpace, CmObjDesc.ObjId), 0,
                    CmObjDesc.Size, 0, <<>>, <<>>)

\* Inputs: up to MaxObjCount objects; Size is the exact size of Count
\* records or up to MaxSizeSlack bytes less or more; the string of each
\* object has its NUL first, last, or not within its 16 bytes.
MaxObjCount == 2
MaxSizeSlack == 1
ParsedObjIds ==
  {<<"EObjNameSpaceArchCommon", id>> :
     id \in {"EArchCommonObjReserved", "EArchCommonObjPciAddressMapInfo",
             "EArchCommonObjLpiInfo", "EArchCommonObjMax"}}
  \cup {<<"EObjNameSpaceArm", id>> :
          id \in {"EArmObjReserved", "EArmObjBootArchInfo", "EArmObjGicDInfo",
                  "EArmObjMax"}}
  \cup {<<"EObjNameSpaceStandard", id>> :
          id \in {"EStdObjCfgMgrInfo", "EStdObjAcpiTableList", "EStdObjSmbiosTableList",
                  "EStdObjBootArchInfo", "EStdObjPowerManagementProfileInfo",
                  "EStdObjCmRef", "EStdObjMax"}}

RECURSIVE SumLengths(_, _)
SumLengths(Parser, n) == IF n = 0 THEN 0 ELSE SumLengths(Parser, n - 1) + Parser[n].Length

\* sizeof of the object behind an id (the structures are packed); an id
\* without parser stands for a type of 8-byte objects.
RecordSizeOf(NameSpaceId, ObjId) ==
  IF ParserArrayOf(NameSpaceId, ObjId) \notin {"NULL", NotParsed}
  THEN SumLengths(ParserNamed(ParserArrayOf(NameSpaceId, ObjId)),
                  Len(ParserNamed(ParserArrayOf(NameSpaceId, ObjId))))
  ELSE 8

NulPositions == {0, 15, 16}

\* The positions of the NULs matter to the one type with a string field.
NulsOf(ObjId) ==
  IF ObjId = "EArchCommonObjLpiInfo" THEN [1..MaxObjCount -> NulPositions]
  ELSE {[k \in 1..MaxObjCount |-> 0]}

ParserDescs ==
  {[Null |-> FALSE, DataNull |-> FALSE, NameSpace |-> o[1], ObjId |-> o[2], Count |-> c,
    Size |-> c * RecordSizeOf(o[1], o[2]) + slack, Nul |-> nul] :
     o \in {x \in ParsedObjIds : x[2] # "EArchCommonObjLpiInfo"}, c \in 0..MaxObjCount,
     slack \in (-MaxSizeSlack)..MaxSizeSlack,
     nul \in NulsOf("EArchCommonObjReserved")}
  \cup
  {[Null |-> FALSE, DataNull |-> FALSE, NameSpace |-> "EObjNameSpaceArchCommon",
    ObjId |-> "EArchCommonObjLpiInfo", Count |-> c,
    Size |-> c * RecordSizeOf("EObjNameSpaceArchCommon", "EArchCommonObjLpiInfo") + slack,
    Nul |-> nul] :
     c \in 0..MaxObjCount, slack \in (-MaxSizeSlack)..MaxSizeSlack,
     nul \in NulsOf("EArchCommonObjLpiInfo")}
  \cup
  {[Null |-> n, DataNull |-> dn, NameSpace |-> ns, ObjId |-> "EArchCommonObjLpiInfo",
    Count |-> 1, Size |-> RecordSizeOf("EObjNameSpaceArchCommon", "EArchCommonObjLpiInfo"),
    Nul |-> [k \in 1..MaxObjCount |-> 0]] :
     n \in BOOLEAN, dn \in BOOLEAN,
     ns \in {"EObjNameSpaceArchCommon", "EObjNameSpaceSmbios"}}

(***************************************************************************)
(* OvmfPkg/PlatformPei/RiscV64/MemDetect.c                                 *)
(*                                                                         *)
(* Addresses and sizes are in MiB.  A node is [hasType, deviceType,        *)
(* regLen, base, size]: whether it has a device_type property, the bytes   *)
(* of the property (character codes, the NUL included when it is there),   *)
(* the length of reg (-1: no reg) and its two cells.  The firmware context *)
(* is [Null, FdtNull, Nodes, Resv], Resv the /reserved-memory/mmode_resv0  *)
(* node or NoNode.                                                         *)
(***************************************************************************)
SIZE_16MB == 16

MemNode(hasType, deviceType, regLen, base, size) ==
  [hasType |-> hasType, deviceType |-> deviceType, regLen |-> regLen,
   base |-> base, size |-> size]
NoNode == MemNode(FALSE, <<>>, -1, 0, 0)

\* The C string "memory": its characters and the terminating NUL.
MemoryString == <<109, 101, 109, 111, 114, 121, 0>>

\* AsciiStrnCmp of BaseLib: 0 when Length is 0; else the two strings are
\* walked while the characters are equal and not NUL and more than one of
\* the Length characters is left, and the difference of the characters
\* reached is returned.  Index is from 1.
RECURSIVE AsciiStrnCmpFrom(_, _, _, _)
AsciiStrnCmpFrom(FirstString, SecondString, Index, Length) ==
  IF FirstString[Index] # 0 /\ SecondString[Index] # 0
     /\ FirstString[Index] = SecondString[Index] /\ Length > 1
  THEN AsciiStrnCmpFrom(FirstString, SecondString, Index + 1, Length - 1)
  ELSE FirstString[Index] - SecondString[Index]

AsciiStrnCmp(FirstString, SecondString, Length) ==
  IF Length = 0 THEN 0 ELSE AsciiStrnCmpFrom(FirstString, SecondString, 1, Length)

\* "Type && (AsciiStrnCmp (Type, "memory", Len) == 0)", Len the length of
\* the device_type property.
IsMemoryType(Node) ==
  Node.hasType /\ AsciiStrnCmp(Node.deviceType, MemoryString, Len(Node.deviceType)) = 0

\* The for loop over the nodes from Index on: [NewBase, NewSize].
RECURSIVE LowestMemoryNode(_, _, _, _)
LowestMemoryNode(Nodes, Index, NewBase, NewSize) ==
  IF Index > Len(Nodes) THEN [NewBase |-> NewBase, NewSize |-> NewSize]
  ELSE LET Node == Nodes[Index]
       IN IF IsMemoryType(Node) /\ Node.regLen = 16
             /\ (NewBase > Node.base \/ NewBase = 0)
          THEN LowestMemoryNode(Nodes, Index + 1, Node.base, Node.size)
          ELSE LowestMemoryNode(Nodes, Index + 1, NewBase, NewSize)

\* PublishPeiMemory: the status, the four statics (Mmode* start at 0) and
\* the range handed to PublishSystemMemory, whose status is returned.  The
\* subtraction is on UINT64: a negative MemorySize v stands for 2^64 + v.
PublishPeiMemory(FirmwareContext, PublishStatus) ==
  IF FirmwareContext.Null \/ FirmwareContext.FdtNull
  THEN [Status |-> "EFI_UNSUPPORTED", Published |-> FALSE,
        SystemMemoryBase |-> 0, SystemMemorySize |-> 0,
        MmodeResvBase |-> 0, MmodeResvSize |-> 0, MemoryBase |-> 0, MemorySize |-> 0]
  ELSE LET m == LowestMemoryNode(FirmwareContext.Nodes, 1, 0, 0)
           Resv == FirmwareContext.Resv
           HasResv == Resv # NoNode /\ Resv.regLen = 16
       IN [Status |-> PublishStatus, Published |-> TRUE,
           SystemMemoryBase |-> m.NewBase, SystemMemorySize |-> m.NewSize,
           MmodeResvBase |-> IF HasResv THEN Resv.base ELSE 0,
           MmodeResvSize |-> IF HasResv THEN Resv.size ELSE 0,
           MemoryBase |-> m.NewBase + SIZE_16MB,
           MemorySize |-> m.NewSize - SIZE_16MB]

\* Inputs: up to MaxMemNodes nodes, each a memory node at one of three bases
\* (0 among them), a memory node with a short reg, a node of another type,
\* a node without device_type, and nodes whose device_type is "mem"
\* without NUL, empty, or "memory-controller".
MaxMemNodes == 3
CpuString == <<99, 112, 117, 0>>
MemPrefix == <<109, 101, 109>>
MemoryControllerString ==
  <<109, 101, 109, 111, 114, 121, 45, 99, 111, 110, 116, 114, 111, 108, 108, 101, 114, 0>>
MemNodeTemplates ==
  {MemNode(TRUE, MemoryString, 16, 0, 1024), MemNode(TRUE, MemoryString, 16, 2048, 512),
   MemNode(TRUE, MemoryString, 16, 4096, 256), MemNode(TRUE, MemoryString, 8, 1024, 0),
   MemNode(TRUE, CpuString, 16, 512, 64), MemNode(FALSE, <<>>, 16, 256, 64),
   MemNode(TRUE, MemPrefix, 16, 1024, 128), MemNode(TRUE, <<>>, 16, 128, 32),
   MemNode(TRUE, MemoryControllerString, 16, 64, 16)}
ResvNodes == {NoNode, MemNode(FALSE, <<>>, 16, 2048, 1), MemNode(FALSE, <<>>, 8, 0, 0)}
FirmwareContexts ==
  {[Null |-> FALSE, FdtNull |-> FALSE, Nodes |-> n, Resv |-> r] :
     n \in SeqsUpTo(MemNodeTemplates, MaxMemNodes), r \in ResvNodes}
  \cup {[Null |-> nl, FdtNull |-> ~nl, Nodes |-> <<>>, Resv |-> NoNode] : nl \in BOOLEAN}
PublishStatuses == {"EFI_SUCCESS", "EFI_OUT_OF_RESOURCES"}

\* Inputs of ArchDispatcher: the table of the file and tables of up to
\* MaxTable entries that go on after it (the Arm table of the library has
\* three entries), the two branches the parsers are handed, and the
\* statuses a parser entry point documents.
MaxTable == 3
FurtherParser(Index) == "Parser" \o ToString(Index)
ParserTables ==
  {ArchHwInfoParserTable \o [k \in 1..(n - 1) |-> FurtherParser(k + 1)] : n \in 1..MaxTable}
FdtBranches == {"/cpus", "-1"}
ParserStatuses ==
  {"EFI_SUCCESS", "EFI_ABORTED", "EFI_INVALID_PARAMETER", "EFI_NOT_FOUND",
   "EFI_UNSUPPORTED"}

(***************************************************************************)
(* State machine of the library functions                                  *)
(***************************************************************************)
UtilInit ==
  /\ UtilIdle
  /\ VerifyIdle /\ ParseIdle /\ GenIdle /\ CmoIdle

CallFixupCmObjectSelfToken ==
  /\ uOp = "none"
  /\ \E CmObjDesc \in FixerDescs, Token \in FixerTokens :
       /\ uOp' = "FixupCmObjectSelfToken"
       /\ uIn' = [Desc |-> CmObjDesc, Token |-> Token]
       /\ uOut' = FixupCmObjectSelfToken(CmObjDesc, Token)
  /\ UNCHANGED <<verifyVars, parseVars, genVars, cmoVars>>

CallFadtArchUpdate ==
  /\ uOp = "none"
  /\ \E CfgMgrProtocol \in CfgMgrProtocols, Fadt \in FadtInputs :
       /\ uOp' = "FadtArchUpdate"
       /\ uIn' = [CfgMgrProtocol |-> CfgMgrProtocol, Fadt |-> Fadt]
       /\ uOut' = FadtArchUpdate(CfgMgrProtocol, Fadt)
  /\ UNCHANGED <<verifyVars, parseVars, genVars, cmoVars>>

CallFadtAddArchInfo ==
  /\ uOp = "none"
  /\ \E CfgMgrProtocol \in CfgMgrProtocols, Fadt \in FadtInputs :
       /\ uOp' = "FadtAddArchInfo"
       /\ uIn' = [CfgMgrProtocol |-> CfgMgrProtocol, Fadt |-> Fadt]
       /\ uOut' = FadtAddArchInfo(CfgMgrProtocol, Fadt)
  /\ UNCHANGED <<verifyVars, parseVars, genVars, cmoVars>>

CallParseCmObjDesc ==
  /\ uOp = "none"
  /\ \E CmObjDesc \in ParserDescs :
       /\ CmObjDesc.Size >= 0
       /\ uOp' = "ParseCmObjDesc"
       /\ uIn' = CmObjDesc
       /\ uOut' = ParseCmObjDesc(CmObjDesc)
  /\ UNCHANGED <<verifyVars, parseVars, genVars, cmoVars>>

CallPublishPeiMemory ==
  /\ uOp = "none"
  /\ \E FirmwareContext \in FirmwareContexts, PublishStatus \in PublishStatuses :
       /\ uOp' = "PublishPeiMemory"
       /\ uIn' = FirmwareContext
       /\ uOut' = PublishPeiMemory(FirmwareContext, PublishStatus)
  /\ UNCHANGED <<verifyVars, parseVars, genVars, cmoVars>>

\* ArchDispatcher over a table, with the branch it is handed and with
\* what each entry returns when called.
CallArchDispatcher ==
  /\ uOp = "none"
  /\ \E Table \in ParserTables, FdtBranch \in FdtBranches :
       \E Returns \in [1..Len(Table) -> ParserStatuses] :
         /\ uOp' = "ArchDispatcher"
         /\ uIn' = [Table |-> Table, FdtBranch |-> FdtBranch, Returns |-> Returns]
         /\ uOut' = ArchDispatcher(Table, FdtBranch, Returns)
  /\ UNCHANGED <<verifyVars, parseVars, genVars, cmoVars>>

UtilNext ==
  \/ CallArchDispatcher
  \/ CallFixupCmObjectSelfToken
  \/ CallPublishPeiMemory
  \/ CallParseCmObjDesc
  \/ CallFadtArchUpdate
  \/ CallFadtAddArchInfo

SpecUtil == UtilInit /\ [][UtilNext]_vars

(***************************************************************************)
(* Claims about the verifier                                               *)
(***************************************************************************)
\* What the last call was given for checklist entry i.
DeclaredNow(i) == mAcpiVerifyTables[i].AcpiTableSignature \in Range(vDeclared)
InstalledNow(i) == mAcpiVerifyTables[i].AcpiTableSignature \in Range(Installed)
Mandatory(i) == mAcpiVerifyTables[i].IsMandatory
Called == vPhase # "boot"
\* The ACPI SDT protocol is located: LocateProtocol succeeds and leaves an
\* interface; the function itself reports "Failed to locate ACPI SDT
\* protocol" when either half fails.
Located == LocateStatus = "EFI_SUCCESS" /\ AcpiSdt # "NULL"

\* C1: a call returns EFI_NOT_FOUND whenever some mandatory checklist entry
\* is neither declared in AcpiTableInfo nor installed, whatever the state of
\* the other entries.
C1_NotFoundWhenMandatoryAbsent ==
  (Called /\ \E i \in VerifyIdx : Mandatory(i) /\ ~DeclaredNow(i) /\ ~InstalledNow(i))
    => vStatus = "EFI_NOT_FOUND"

\* Entry i is declared and installed, every other entry is fine: a mandatory
\* one present through exactly one route, the optional one not in conflict.
OneConflictOthersFine(i) ==
  /\ DeclaredNow(i) /\ InstalledNow(i)
  /\ \A j \in VerifyIdx \ {i} :
       /\ ~(DeclaredNow(j) /\ InstalledNow(j))
       /\ Mandatory(j) => (DeclaredNow(j) \/ InstalledNow(j))

\* C2 as stated: a call returns EFI_ALREADY_STARTED when one entry is both
\* declared and installed and every other entry is fine.
C2_ConflictAsStated ==
  (Called /\ \E i \in VerifyIdx : OneConflictOthersFine(i))
    => vStatus = "EFI_ALREADY_STARTED"

\* C2 amended: the same, when runtime ACPI introspection is enabled and the
\* ACPI SDT protocol is located, at whichever position the conflict is.
C2_ConflictWhenIntrospected ==
  (Called /\ Pcd /\ Located
     /\ \E i \in VerifyIdx : OneConflictOthersFine(i))
    => vStatus = "EFI_ALREADY_STARTED"

\* C2 witness: the conflict is at the last entry (SPCR, the optional one);
\* of the four mandatory entries before it some are present through the
\* declared route only and some through the installed route only.
C2_Witness ==
  /\ Called /\ Pcd /\ Located
  /\ OneConflictOthersFine(ACPI_TABLE_VERIFY_COUNT)
  /\ \E j \in VerifyIdx : DeclaredNow(j) /\ ~InstalledNow(j)
  /\ \E j \in VerifyIdx : InstalledNow(j) /\ ~DeclaredNow(j)
  /\ vStatus = "EFI_ALREADY_STARTED"

(***************************************************************************)
(* Claims about the parsers                                                *)
(***************************************************************************)
\* The store objects the last invocation added, in the order added.
AddedNow == SubSeq(store, pMark + 1, Len(store))
Invoked == pPhase # "boot"

CtrlTypes == {"ERiscVObjPlicInfo", "ERiscVObjAplicInfo"}
Emitters == {"PlicRintcInfoParser", "AplicRintcInfoParser", "RiscVAplicPlicInfoParser"}

\* The records of type T that parser P added in the last invocation.
IsEmitted(e, P, T) == e.By = P /\ e.ObjectId = T
EmittedBy(P, T) == SelectSeq(AddedNow, LAMBDA e : IsEmitted(e, P, T))

\* The sum of NumSources over the first n objects of E.
RECURSIVE SumSources(_, _)
SumSources(E, n) == IF n = 0 THEN 0 ELSE SumSources(E, n - 1) + E[n].Data[1].NumSources

\* C3: in every parser that emits PLIC or APLIC records, the i-th accepted
\* controller of a type gets GsiBase equal to the sum of NumSources of the
\* accepted controllers of that type before it, the first one 0, whatever
\* the parser's locals held on entry.
C3_GsiBaseIsRunningSum ==
  Invoked =>
    \A P \in Emitters, T \in CtrlTypes :
      \A i \in 1..Len(EmittedBy(P, T)) :
        EmittedBy(P, T)[i].Data[1].GsiBase = Known(SumSources(EmittedBy(P, T), i - 1))

\* The last invocation ran CpusNodeParser: the Apic RINTC parser always
\* does, the Madt one when the tree has no S-mode IMSIC node and it is handed
\* the /cpus node (the dispatcher hands it -1, so its call never does).
RanCpusNodeParser ==
  /\ Invoked
  /\ \/ pOp = "RiscVIntcInfoParser"
     \/ /\ pOp = "RiscVRintcInfoParser"
        /\ FdtGetCompatSmodeIc(fdt, "riscv,imsics", 1) = 0

IsRintc(e) == e.ObjectId = "ERiscVObjRintcInfo"
RintcAddedNow == SelectSeq(AddedNow, IsRintc)

\* C4: every successful invocation of the RINTC parser over a tree with N
\* cpu nodes adds one descriptor of exactly N RINTC records whose
\* AcpiProcessorUid are 0, 1, ..., N-1 in node order.
C4_UidsCountFromZero ==
  (RanCpusNodeParser /\ ~EFI_ERROR(pStatus)) =>
    /\ Len(RintcAddedNow) = 1
    /\ RintcAddedNow[1].Count = Len(fdt.cpus)
    /\ Len(RintcAddedNow[1].Data) = Len(fdt.cpus)
    /\ \A i \in 1..Len(fdt.cpus) : RintcAddedNow[1].Data[i].AcpiProcessorUid = i - 1

\* The phandles of the cpu interrupt controllers, one per RINTC record.
CpuPhandles == {fdt.cpus[i].phandle : i \in 1..Len(fdt.cpus)}

\* Some IMSIC, S-mode APLIC or PLIC node lists an interrupt target whose
\* phandle names no cpu interrupt controller.
HasUnmatchedTarget ==
  \E i \in 1..Len(fdt.devs) :
    /\ \/ fdt.devs[i].compat \in {"riscv,imsics", "riscv,plic0"}
       \/ fdt.devs[i].compat = "riscv,aplic" /\ IsSmodeAplic(fdt, fdt.devs[i])
    /\ fdt.devs[i].hasIntExt
    /\ \E k \in 0..(Len(fdt.devs[i].intExt) \div 2 - 1) :
         IntExtPhandle(fdt.devs[i], k) \notin CpuPhandles

\* C7: when an interrupt target of an IMSIC, S-mode APLIC or PLIC node
\* matches no RINTC record, RiscVIntcInfoParser and the dispatcher return
\* EFI_NOT_FOUND and add no RINTC records to the store.
C7_UnmatchedTargetIsHardError ==
  (Invoked /\ pOp \in {"RiscVIntcInfoParser", "RiscVApicDispatcher"} /\ HasUnmatchedTarget) =>
    /\ pStatus = "EFI_NOT_FOUND"
    /\ Len(RintcAddedNow) = 0

\* The indices of the PLIC and APLIC objects in the store.
CtrlIdx == {i \in 1..Len(store) : store[i].ObjectId \in CtrlTypes}
GsiLo(i) == store[i].Data[1].GsiBase

\* The GSI range of record i ends at or before that of record j begins,
\* whatever the locals held: the two bases count from the same held value,
\* or both are numbers.
EndsBefore(i, j) ==
  /\ GsiLo(i).Held = GsiLo(j).Held
  /\ GsiLo(i).Call = GsiLo(j).Call
  /\ GsiLo(i).Off + store[i].Data[1].NumSources <= GsiLo(j).Off

\* The last invocation was the first run of the dispatcher.
DispatcherRanOnce == pPhase = "first" /\ pOp = "RiscVApicDispatcher"

\* C8: after one run of the dispatcher every PLIC and APLIC record of the
\* store was created by exactly one parser (no controller node has two
\* records, from two parsers or from one) and the GSI ranges
\* [GsiBase, GsiBase + NumSources) of the records of one type are pairwise
\* disjoint.
C8_OneCreatorDisjointRanges ==
  DispatcherRanOnce =>
    \A i, j \in CtrlIdx :
      (i # j /\ store[i].ObjectId = store[j].ObjectId) =>
        /\ store[i].Node # store[j].Node
        /\ EndsBefore(i, j) \/ EndsBefore(j, i)

\* C8 witness: the dispatcher succeeded over a tree with an S-mode IMSIC
\* node and two PLIC nodes; the RINTC records and two PLIC records are in
\* the store, the second range starting where the first ends.
C8_Witness ==
  /\ DispatcherRanOnce
  /\ pStatus = "EFI_SUCCESS"
  /\ Len(RintcAddedNow) = 1
  /\ \E i, j \in CtrlIdx :
       /\ i < j
       /\ store[i].ObjectId = "ERiscVObjPlicInfo"
       /\ store[j].ObjectId = "ERiscVObjPlicInfo"
       /\ store[i].Node # store[j].Node
       /\ store[i].Data[1].NumSources > 0
       /\ GsiLo(j) = Plus(GsiLo(i), store[i].Data[1].NumSources)

\* CpuNodeParser has parsed a cpu node, so CreateTimerInfo has run.
CpuParsed == Invoked /\ ProcUid > 0
TimerNodeNow == FdtGetCompatSmodeNode(fdt, "riscv,timer", 1)
TimerRecords == RecordsOf(store, "ERiscVObjTimerInfo", 1)

\* C10 as stated: when the timer node provides timebase-frequency = F and
\* has no riscv,timer-cannot-wake-cpu, the parser emits a Timer record with
\* TimeBaseFrequency = F and TimerCannotWakeCpu = 0.
C10_TimerAsStated ==
  (CpuParsed /\ TimerNodeNow # 0 /\ fdt.devs[TimerNodeNow].timebase # -1
     /\ ~fdt.devs[TimerNodeNow].cannotWake) =>
    \E k \in 1..Len(TimerRecords) :
      /\ TimerRecords[k].TimeBaseFrequency = fdt.devs[TimerNodeNow].timebase
      /\ TimerRecords[k].TimerCannotWakeCpu = Known(0)

\* C10 amended: when the /cpus node provides timebase-frequency = F and the
\* first riscv,timer node has no riscv,timer-cannot-wake-cpu, then once a
\* cpu node is parsed the store holds one Timer record, with
\* TimeBaseFrequency = F and TimerCannotWakeCpu = 0.
C10_TimerFromCpusNode ==
  (CpuParsed /\ fdt.tbf # -1 /\ TimerNodeNow # 0 /\ ~fdt.devs[TimerNodeNow].cannotWake) =>
    TimerRecords = <<[TimeBaseFrequency |-> fdt.tbf, TimerCannotWakeCpu |-> Known(0)]>>

\* C10 witness: /cpus gives 10000000, the timer node can wake the harts, a
\* cpu node was parsed and the record is in the store.
C10_Witness ==
  /\ CpuParsed /\ fdt.tbf = 10000000
  /\ TimerNodeNow # 0 /\ ~fdt.devs[TimerNodeNow].cannotWake
  /\ TimerRecords = <<[TimeBaseFrequency |-> 10000000, TimerCannotWakeCpu |-> Known(0)]>>

(***************************************************************************)
(* Claims about the generators                                             *)
(***************************************************************************)
\* C5: ArchGetGsiIrqId returns IrqId + GsiBase of the record whose Phandle
\* is IntcPhandle, whether the record is an APLIC or a PLIC record, for
\* every combination of empty and non-empty record sets.
C5_GsiOfMatchingController ==
  gOp = "ArchGetGsiIrqId" =>
    \A i \in CtrlIdx :
      store[i].Data[1].Phandle = gIn[2] => gOut.Value = gIn[1] + GsiLo(i)

\* The per-core records the generator walks.
TopoRecords == RecordsOf(store, "ERiscVObjRintcInfo", 1)
CpcDangles(R) ==
  R.CpcToken # CM_NULL_TOKEN /\ ~TokenResolves(store, "ERiscVObjCpcInfo", R.CpcToken)
EtDangles(R) ==
  R.EtToken # CM_NULL_TOKEN /\ ~TokenResolves(store, "EtInfo", R.EtToken)
Dangles(i) == CpcDangles(TopoRecords[i]) \/ EtDangles(TopoRecords[i])

\* C6: with every CPU node created, records whose tokens are NULL or
\* resolve give a node each, with a sub-object exactly for the non-NULL
\* tokens, up to the first record with a token that fails to dereference;
\* there the generator stops with EFI_NOT_FOUND; without such a record it
\* succeeds over all the records.
C6_TokenHandling ==
  (gOp = "CreateTopologyFromApic" /\ gIn[1] = 0 /\ Len(TopoRecords) > 0) =>
    /\ \A i \in 1..Len(TopoRecords) :
         (\A j \in 1..i : ~Dangles(j)) =>
           /\ Len(gOut.Aml) >= i
           /\ gOut.Aml[i].Cpc = (TopoRecords[i].CpcToken # CM_NULL_TOKEN)
           /\ gOut.Aml[i].Et = (TopoRecords[i].EtToken # CM_NULL_TOKEN)
    /\ (\A j \in 1..Len(TopoRecords) : ~Dangles(j)) =>
         /\ ~EFI_ERROR(gOut.Status)
         /\ Len(gOut.Aml) = Len(TopoRecords)
    /\ \A i \in 1..Len(TopoRecords) :
         (Dangles(i) /\ \A j \in 1..(i - 1) : ~Dangles(j)) =>
           /\ gOut.Status = "EFI_NOT_FOUND"
           /\ Len(gOut.Aml) <= i

(***************************************************************************)
(* Claims about RhctCmoGetBlockSize                                        *)
(***************************************************************************)
\* C9: RhctCmoGetBlockSize returns k for the input 2^k, in both variants.
C9_BlockSizeIsLog2 ==
  cmoOut # NotCalled => \E k \in CmoLog2s : cmoOut = Known(k) /\ Pow2(k) = cmoVal

(***************************************************************************)
(* Claims about the S-mode test                                            *)
(***************************************************************************)
\* The test as the claim words it: the type cell of the node's
\* interrupts-extended is IRQ_S_EXT, or its msi-parent names a node whose
\* type cell is IRQ_S_EXT.
TypeCellIsSExt(n) == n.hasIntExt /\ Len(n.intExt) >= 2 /\ n.intExt[2] = IRQ_S_EXT
SmodeInstance(n) ==
  \/ TypeCellIsSExt(n)
  \/ /\ n.msiParent # 0
     /\ \E k \in 1..Len(fdt.devs) :
          fdt.devs[k].phandle = n.msiParent /\ TypeCellIsSExt(fdt.devs[k])

\* The objects of type T the parsers put in the store.
ParsedIdx(T) == {i \in 1..Len(store) : Invoked /\ store[i].ObjectId = T}

\* C11: every APLIC and every PLIC record the parsers emit belongs to a
\* node that passes the S-mode test; a node passing neither half of the test
\* has no record.
C11_OnlySmodeAsStated ==
  \A T \in CtrlTypes : \A i \in ParsedIdx(T) : SmodeInstance(fdt.devs[store[i].Node])

(***************************************************************************)
(* Claims about the singleton records                                      *)
(***************************************************************************)
SingletonTypes == {"ERiscVObjTimerInfo", "ERiscVObjIsaStringInfo", "ERiscVObjCmoInfo"}

\* The number of objects of type T the last invocation added.
AddedCount(T) == Cardinality({i \in 1..Len(AddedNow) : AddedNow[i].ObjectId = T})

\* C12: one invocation adds at most one Timer, at most one ISA-string and
\* at most one CMO record, however many cpu nodes carry the properties.
C12_AtMostOneSingleton ==
  Invoked => \A T \in SingletonTypes : AddedCount(T) <= 1

\* C12 witness: both of two cpu nodes carry riscv,isa and the CMO block
\* sizes under a /cpus with timebase-frequency, both were parsed, and the
\* invocation added exactly one record of each type.
C12_Witness ==
  /\ Invoked /\ Len(fdt.cpus) = 2 /\ ProcUid = 2 /\ fdt.tbf # -1
  /\ \A i \in 1..2 : fdt.cpus[i].isaLen # -1 /\ fdt.cpus[i].cbom # -1
  /\ \A T \in SingletonTypes : AddedCount(T) = 1

\* What the tree describes: riscv,isa or the CMO block sizes on some cpu
\* node, timebase-frequency on /cpus.
Describes(T) ==
  CASE T = "ERiscVObjIsaStringInfo" -> \E i \in 1..Len(fdt.cpus) : fdt.cpus[i].isaLen # -1
    [] T = "ERiscVObjCmoInfo" -> \E i \in 1..Len(fdt.cpus) : fdt.cpus[i].cbom # -1
    [] T = "ERiscVObjTimerInfo" -> fdt.tbf # -1

\* C13: every invocation that parses all the cpu nodes, a second one in
\* the same process included, adds the Timer, ISA-string and CMO records
\* its tree describes.
C13_EverySessionEmits ==
  (RanCpusNodeParser /\ ~EFI_ERROR(pStatus)) =>
    \A T \in SingletonTypes : Describes(T) => AddedCount(T) = 1

(***************************************************************************)
(* Claims about object sizes                                               *)
(***************************************************************************)
\* sizeof of the record type of an object id.
RecordSize(T) ==
  CASE T = "ERiscVObjRintcInfo" -> sizeof_CM_RISCV_RINTC_INFO
    [] T = "ERiscVObjImsicInfo" -> sizeof_CM_RISCV_IMSIC_INFO
    [] T = "ERiscVObjAplicInfo" -> sizeof_CM_RISCV_APLIC_INFO
    [] T = "ERiscVObjPlicInfo" -> sizeof_CM_RISCV_PLIC_INFO
    [] T = "ERiscVObjIsaStringInfo" -> sizeof_CM_RISCV_ISA_STRING_NODE
    [] T = "ERiscVObjCmoInfo" -> sizeof_CM_RISCV_CMO_NODE
    [] T = "ERiscVObjTimerInfo" -> sizeof_CM_RISCV_TIMER_INFO

\* C14: every object the parsers hand to the store has Size equal to Count
\* times the size of the record type of its object id.
C14_SizeIsCountTimesRecord ==
  Invoked =>
    \A i \in 1..Len(store) :
      /\ store[i].Count = Len(store[i].Data)
      /\ store[i].Size = store[i].Count * RecordSize(store[i].ObjectId)

(***************************************************************************)
(* Claims about malformed controller nodes                                 *)
(***************************************************************************)
\* Node i of the tree is a controller node the parsers accept: an S-mode
\* riscv,aplic node, or a riscv,plic0 node with interrupts-extended.
AcceptedCtrl(i) ==
  \/ fdt.devs[i].compat = "riscv,aplic" /\ IsSmodeAplic(fdt, fdt.devs[i])
  \/ /\ fdt.devs[i].compat = "riscv,plic0"
     /\ fdt.devs[i].hasIntExt
     /\ Len(fdt.devs[i].intExt) >= 1

\* Node i lacks reg, has a reg whose length is no multiple of 4, or lacks
\* its source count (riscv,num-sources or riscv,ndev).
MalformedCtrl(i) ==
  \/ fdt.devs[i].regLen = 0
  \/ fdt.devs[i].regLen % 4 # 0
  \/ fdt.devs[i].numSources = -1

\* The parsers that walk the controller nodes: RiscVAplicPlicInfoParser of
\* either directory (the Madt one never looks at riscv,plic0 nodes),
\* RiscVIntcInfoParser, which runs AplicRintcInfoParser and
\* PlicRintcInfoParser, and the dispatcher, which runs the Apic
\* RiscVAplicPlicInfoParser once its RINTC pass has added its records.
HandlesCtrl(i) ==
  \/ pOp = "RiscVAplicPlicInfoParser"
     /\ (variant # "Madt" \/ fdt.devs[i].compat = "riscv,aplic")
  \/ pOp = "RiscVIntcInfoParser"
  \/ pOp = "RiscVApicDispatcher" /\ Len(RintcAddedNow) = 1

\* The last invocation handled the accepted controller node i, and no
\* unmatched interrupt target ended the walk before it.
HandledCtrl(i) ==
  /\ Invoked
  /\ i \in 1..Len(fdt.devs)
  /\ AcceptedCtrl(i)
  /\ HandlesCtrl(i)
  /\ ~HasUnmatchedTarget

\* C15: when an accepted S-mode APLIC or PLIC node is malformed, every
\* parser that handles the node returns an error status, never EFI_SUCCESS,
\* and adds no record for it.
C15_MalformedIsError ==
  \A i \in 1..Len(fdt.devs) :
    (HandledCtrl(i) /\ MalformedCtrl(i)) =>
      /\ EFI_ERROR(pStatus)
      /\ \A j \in 1..Len(AddedNow) :
           ~(AddedNow[j].ObjectId \in CtrlTypes /\ AddedNow[j].Node = i)

(***************************************************************************)
(* Claims about the unmatched controller phandle                           *)
(***************************************************************************)
\* The last call asked ArchGetGsiIrqId about a phandle that no APLIC and no
\* PLIC record of the store carries.
UnmatchedQuery ==
  /\ gOp = "ArchGetGsiIrqId"
  /\ \A i \in CtrlIdx : store[i].Data[1].Phandle # gIn[2]

\* The GSI bases a controller record can carry, and the values a successful
\* remapping of IrqId can return.
GsiBases ==
  UNION {{S[i].Data[1].GsiBase : i \in {j \in 1..Len(S) : S[j].ObjectId \in CtrlTypes}} :
           S \in GenStores}
RemapResults(IrqId) == {IrqId + b : b \in GsiBases}

\* C16: for a phandle that matches no APLIC and no PLIC record,
\* ArchGetGsiIrqId never returns a value that a successful remapping of the
\* same IrqId also returns.
C16_UnmatchedIsTellable ==
  UnmatchedQuery => gOut.Value \notin RemapResults(gIn[1])

(***************************************************************************)
(* Claims about the external interrupt controller ID                       *)
(***************************************************************************)
\* The last invocation was a successful run of the Apic RINTC parser; its
\* per-core records.
RintcParsed ==
  /\ Invoked
  /\ pOp = "RiscVIntcInfoParser"
  /\ pStatus = "EFI_SUCCESS"
  /\ Len(RintcAddedNow) = 1
RintcRecords == RintcAddedNow[1].Data

\* The pairs of node i's interrupts-extended that name the phandle as a
\* supervisor-external target.
PairsOf(i) == 0..(Len(fdt.devs[i].intExt) \div 2 - 1)
SExtPairs(i, Phandle) ==
  {k \in PairsOf(i) : /\ IntExtPhandle(fdt.devs[i], k) = Phandle
                      /\ IntExtType(fdt.devs[i], k) = IRQ_S_EXT}

\* Node i is an accepted controller (S-mode APLIC or PLIC) that lists the
\* phandle as a supervisor-external target.
ListsTarget(i, Phandle) ==
  /\ AcceptedCtrl(i)
  /\ fdt.devs[i].hasIntExt
  /\ SExtPairs(i, Phandle) # {}

\* The controller instance index of node i: the number of accepted
\* controller nodes of its kind before it in the tree.
InstanceIndex(i) ==
  Cardinality({m \in 1..(i - 1) :
                 AcceptedCtrl(m) /\ fdt.devs[m].compat = fdt.devs[i].compat})

\* The local hart index of the phandle under node i: the number of distinct
\* harts the node lists before it.
LocalHartIndex(i, Phandle) ==
  LET First == CHOOSE k \in PairsOf(i) :
                 /\ IntExtPhandle(fdt.devs[i], k) = Phandle
                 /\ \A m \in 0..(k - 1) : IntExtPhandle(fdt.devs[i], m) # Phandle
  IN Cardinality({IntExtPhandle(fdt.devs[i], m) : m \in 0..(First - 1)})

\* The local context indexes the claim allows for the phandle under node i.
LocalContexts(i, Phandle) ==
  IF fdt.devs[i].compat = "riscv,aplic"
  THEN SExtPairs(i, Phandle)
  ELSE {2 * LocalHartIndex(i, Phandle) + 1}

\* C17: after a successful RINTC parse, a per-core record listed as a
\* supervisor-external target by an S-mode APLIC or a PLIC carries
\* ExtIntCId = (instance index of a listing controller << 24) | its local
\* context index under that controller (APLIC: index of the target's
\* entry; PLIC: 2 x local hart index + 1); a record that no controller
\* lists keeps ExtIntCId = 0.
C17_ExtIntCIdIsComposite ==
  RintcParsed =>
    \A r \in 1..Len(RintcRecords) :
      LET Phandle == RintcRecords[r].IntcPhandle
          Listing == {i \in 1..Len(fdt.devs) : ListsTarget(i, Phandle)}
      IN IF Listing = {}
         THEN RintcRecords[r].ExtIntCId = 0
         ELSE \E i \in Listing :
                \E c \in LocalContexts(i, Phandle) :
                  /\ RintcRecords[r].ExtIntCId = InstanceIndex(i) * 16777216 + c
                  /\ RintcRecords[r].ExtIntCId \div 16777216 = InstanceIndex(i)
                  /\ RintcRecords[r].ExtIntCId % 16777216 = c

(***************************************************************************)
(* Claims about the CPU topology loop                                      *)
(***************************************************************************)
\* The status of the three steps taken for record i in the last call, and
\* the first error among them (EFI_SUCCESS when none fails).
CpuStep(i) == CreateAmlCpu(TopoRecords[i], i - 1, gIn[1]).Status
CpcStep(i) ==
  IF TopoRecords[i].CpcToken # CM_NULL_TOKEN
  THEN CreateAmlCpcNode(store, TopoRecords[i]) ELSE "EFI_SUCCESS"
EtStep(i) ==
  IF TopoRecords[i].EtToken # CM_NULL_TOKEN
  THEN CreateAmlEtNode(store, TopoRecords[i]) ELSE "EFI_SUCCESS"
StepStatus(i) ==
  IF EFI_ERROR(CpuStep(i)) THEN CpuStep(i)
  ELSE IF EFI_ERROR(CpcStep(i)) THEN CpcStep(i)
  ELSE EtStep(i)
FailingRecords == {i \in 1..Len(TopoRecords) : EFI_ERROR(StepStatus(i))}
FirstFailing == CHOOSE i \in FailingRecords : \A j \in FailingRecords : i <= j

\* Node i of the output is the CPU node of record i: named by the record's
\* index and keyed by its AcpiProcessorUid.
NodeOfRecord(i) ==
  /\ gOut.Aml[i].Name = i - 1
  /\ gOut.Aml[i].Uid = TopoRecords[i].AcpiProcessorUid

Classified == Called /\ (~Pcd \/ Located)

\* The presence bits of entry i after the call.
Absent(i) == Presence[i] = 0
BothBits(i) ==
  Presence[i] = ACPI_TABLE_PRESENT_INFO_LIST + ACPI_TABLE_PRESENT_INSTALLED

\* C19: when introspection is disabled or the SDT protocol is located, the
\* call returns EFI_SUCCESS exactly when no mandatory entry is absent and
\* no entry has both presence bits set; an absent optional entry is logged
\* as a warning, never as an error, and does not decide the status.
C19_SuccessIffNothingOffends ==
  Classified =>
    /\ vStatus = "EFI_SUCCESS" <=>
         \A i \in VerifyIdx : ~(Mandatory(i) /\ Absent(i)) /\ ~BothBits(i)
    /\ \A i \in VerifyIdx :
         (~Mandatory(i) /\ Absent(i)) =>
           /\ \E k \in 1..Len(vLog) : vLog[k] = <<"WARNING", "not found", i>>
           /\ \A k \in 1..Len(vLog) : vLog[k][3] = i => vLog[k][1] = "WARNING"

\* The four mandatory tables are declared, SPCR is neither declared nor
\* installed: success with the SPCR warning.
C19_Witness ==
  /\ Classified
  /\ \A i \in VerifyIdx : Mandatory(i) => DeclaredNow(i) /\ ~BothBits(i)
  /\ Absent(5)
  /\ vStatus = "EFI_SUCCESS"
  /\ vLog = <<(<<"WARNING", "not found", 5>>)>>

(***************************************************************************)
(* Claims about ArchDispatcher                                             *)
(***************************************************************************)
\* The last invocation was ArchDispatcher.
ArchRan == uOp = "ArchDispatcher"

\* A status the loop goes on after.
LetThrough(Status) == Status \in {"EFI_SUCCESS", "EFI_NOT_FOUND"}

\* The first table entry whose status stops the loop, 0 when none does.
FirstHardError ==
  IF \A k \in 1..Len(uIn.Table) : LetThrough(uIn.Returns[k]) THEN 0
  ELSE CHOOSE k \in 1..Len(uIn.Table) :
         /\ ~LetThrough(uIn.Returns[k])
         /\ \A j \in 1..(k - 1) : LetThrough(uIn.Returns[j])

\* C20: ArchDispatcher invokes the entries of its table in table order,
\* each with the branch it was handed; it returns EFI_SUCCESS if and only
\* if every entry returned EFI_SUCCESS or EFI_NOT_FOUND, and then it has
\* invoked all of them; at the first entry that returns another error it
\* returns that error and has invoked no entry after it.
C20_TableOrderFirstHardError ==
  ArchRan =>
    /\ Len(uOut.Calls) <= Len(uIn.Table)
    /\ \A k \in 1..Len(uOut.Calls) :
         /\ uOut.Calls[k].Parser = uIn.Table[k]
         /\ uOut.Calls[k].FdtBranch = uIn.FdtBranch
         /\ uOut.Calls[k].Status = uIn.Returns[k]
    /\ uOut.Status = "EFI_SUCCESS" <=> FirstHardError = 0
    /\ FirstHardError = 0 => Len(uOut.Calls) = Len(uIn.Table)
    /\ FirstHardError # 0 =>
         /\ uOut.Status = uIn.Returns[FirstHardError]
         /\ Len(uOut.Calls) = FirstHardError

\* A table of three entries: the first finds nothing, the second fails, and
\* the third, which would succeed, is not invoked.
C20_Witness ==
  /\ ArchRan
  /\ Len(uIn.Table) = 3
  /\ uIn.Returns = <<"EFI_NOT_FOUND", "EFI_ABORTED", "EFI_SUCCESS">>
  /\ Len(uOut.Calls) = 2
  /\ uOut.Calls[1].Parser = "RiscVMadtDispatcher"
  /\ uOut.Status = "EFI_ABORTED"

(***************************************************************************)
(* Claims about the CMO block sizes                                        *)
(***************************************************************************)
\* cpu node i carries at least one of the three block-size properties.
HasAnyCmo(i) ==
  fdt.cpus[i].cbom # -1 \/ fdt.cpus[i].cboz # -1 \/ fdt.cpus[i].cbop # -1

\* The first invocation parsed every cpu node of the tree.
FirstCpuParse == RanCpusNodeParser /\ pPhase = "first" /\ ~EFI_ERROR(pStatus)

\* The CMO records the last invocation added.
IsCmo(e) == e.ObjectId = "ERiscVObjCmoInfo"
CmoAddedNow == SelectSeq(AddedNow, IsCmo)

\* The record has 0 in the field of every property that cpu node i lacks.
ZeroWhereAbsent(Rec, i) ==
  /\ fdt.cpus[i].cbom = -1 => Rec.CbomBlockSize = Known(0)
  /\ fdt.cpus[i].cboz = -1 => Rec.CbozBlockSize = Known(0)
  /\ fdt.cpus[i].cbop = -1 => Rec.CbopBlockSize = Known(0)

\* C21: the first cpu node that carries any of the three CMO block-size
\* properties yields the CMO record, with 0 in the field of each property
\* it lacks; a node with cboz or cbop but no cbom block size still yields
\* the record, with CbomBlockSize = 0.
C21_AbsentBlockSizeIsZero ==
  FirstCpuParse =>
    \A i \in 1..Len(fdt.cpus) :
      (HasAnyCmo(i) /\ \A j \in 1..(i - 1) : ~HasAnyCmo(j)) =>
        /\ Len(CmoAddedNow) = 1
        /\ ZeroWhereAbsent(CmoAddedNow[1].Data[1], i)

(***************************************************************************)
(* Claims about the token fixer                                            *)
(***************************************************************************)
Fixed == uOp = "FixupCmObjectSelfToken"

\* The Arm object ids whose table entry writes the token, and those whose
\* entry is the not-implemented fixer.
WritingIds == {18, 19, 20, 22}
NotImplementedIds == {21, 23, 27, 28, 29}

\* The descriptor handed in names an Arm object with an id inside the table.
ArmInTable ==
  /\ ~uIn.Desc.Null
  /\ uIn.Desc.ObjectId.NameSpace = "EObjNameSpaceArm"
  /\ uIn.Desc.ObjectId.Id < EArmObjMax

\* C22: FixupCmObjectSelfToken returns EFI_SUCCESS with the object's Token
\* set to the given token (nothing else changed) for a type with a fixer,
\* EFI_SUCCESS with the object unchanged for a type with a NULL entry,
\* EFI_INVALID_PARAMETER for a NULL descriptor or an Arm object id >=
\* EArmObjMax, EFI_UNSUPPORTED for a non-Arm namespace or a not-implemented
\* fixer; in every error case the object is unchanged.
C22_FixupDispatch ==
  Fixed =>
    /\ uIn.Desc.Null => uOut.Status = "EFI_INVALID_PARAMETER"
    /\ (~uIn.Desc.Null /\ uIn.Desc.ObjectId.NameSpace # "EObjNameSpaceArm") =>
         uOut.Status = "EFI_UNSUPPORTED"
    /\ (~uIn.Desc.Null /\ uIn.Desc.ObjectId.NameSpace = "EObjNameSpaceArm"
          /\ uIn.Desc.ObjectId.Id >= EArmObjMax) =>
         uOut.Status = "EFI_INVALID_PARAMETER"
    /\ (ArmInTable /\ uIn.Desc.ObjectId.Id \in NotImplementedIds) =>
         uOut.Status = "EFI_UNSUPPORTED"
    /\ (ArmInTable /\ uIn.Desc.ObjectId.Id \in WritingIds) =>
         /\ uOut.Status = "EFI_SUCCESS"
         /\ uOut.Desc = [uIn.Desc EXCEPT !.Data.Token = uIn.Token]
    /\ (ArmInTable /\ uIn.Desc.ObjectId.Id \notin WritingIds \cup NotImplementedIds) =>
         /\ uOut.Status = "EFI_SUCCESS"
         /\ uOut.Desc = uIn.Desc
    /\ EFI_ERROR(uOut.Status) => uOut.Desc = uIn.Desc

\* An SMMUv3 node holding token 0 is handed token 9 and holds it afterwards.
C22_Witness ==
  /\ Fixed
  /\ ArmInTable
  /\ uIn.Desc.ObjectId.Id = 22
  /\ uIn.Desc.Data.Token = 0
  /\ uIn.Token = 9
  /\ uOut.Status = "EFI_SUCCESS"
  /\ uOut.Desc.Data.Token = 9

(***************************************************************************)
(* Claims about the FADT patcher                                           *)
(***************************************************************************)
FadtPatched == uOp \in {"FadtArchUpdate", "FadtAddArchInfo"}

\* C23: the FADT architecture patcher, under the name FadtArchUpdate and
\* under the name FadtAddArchInfo that the header declares, returns
\* EFI_SUCCESS for every non-null input, leaves Fadt->Flags at exactly
\* HW_REDUCED_ACPI | LOW_POWER_S0_IDLE_CAPABLE whatever the store holds, and
\* leaves every other field of the FADT unchanged.
C23_FlagsExactlyTwoBits ==
  FadtPatched =>
    /\ uOut.Status = "EFI_SUCCESS"
    /\ uOut.Fadt.Flags = FADT_FLAGS
    /\ uOut.Fadt.Rest = uIn.Fadt.Rest

(***************************************************************************)
(* Claims about the verifier's log                                         *)
(***************************************************************************)
\* Entry i offends: mandatory and absent, or in conflict.
Offends(i) == (Mandatory(i) /\ Absent(i)) \/ BothBits(i)

\* The log lines about entry i.
LinesAbout(i) == {k \in 1..Len(vLog) : vLog[k][3] = i}

\* C24: a call that reaches the classification examines the five entries in
\* index order: every absent mandatory entry has its "not found" error in
\* the log, every entry in conflict its "already published" error, each
\* once, whatever was found at earlier entries, and the log lines are in
\* increasing entry order.
C24_EveryViolationLogged ==
  Classified =>
    /\ \A i \in VerifyIdx :
         /\ (Mandatory(i) /\ Absent(i)) =>
              \E k \in LinesAbout(i) : vLog[k] = <<"ERROR", "not found", i>>
         /\ BothBits(i) =>
              \E k \in LinesAbout(i) : vLog[k] = <<"ERROR", "already published", i>>
         /\ Cardinality(LinesAbout(i)) = IF Offends(i) \/ Absent(i) THEN 1 ELSE 0
    /\ \A k \in 1..(Len(vLog) - 1) : vLog[k][3] < vLog[k + 1][3]

\* FADT is in conflict and MADT is absent: both are in the log, the later
\* one after the earlier one.
C24_Witness ==
  /\ Classified
  /\ BothBits(1)
  /\ Absent(2)
  /\ Len(vLog) >= 2
  /\ vLog[1] = <<"ERROR", "already published", 1>>
  /\ vLog[2] = <<"ERROR", "not found", 2>>

(***************************************************************************)
(* Claims about the verifier across calls                                  *)
(***************************************************************************)
\* What the call returns when no presence bit is set as it starts.
StatusFromInputsAlone ==
  VerifyMandatoryTablesArePresent([i \in VerifyIdx |-> 0], vDeclared, Installed,
                                  Pcd, LocateStatus, AcpiSdt).Status

\* C26: the status a call returns is decided by that call's AcpiTableInfo
\* and the tables installed at that moment alone: it is the status the call
\* returns with no presence bit set beforehand, so the bits an earlier call
\* set do not carry over.
C26_StatusOfThisCallOnly ==
  Called => vStatus = StatusFromInputsAlone

(***************************************************************************)
(* Claims about the two-phase build of the RINTC records                   *)
(***************************************************************************)
\* The last invocation was RiscVIntcInfoParser of the Apic variant.
IntcRan == Invoked /\ pOp = "RiscVIntcInfoParser"

\* The pass of RiscVIntcInfoParser that added store object e.
PassOf(e) ==
  CASE e.By \in {"CreateIsaStringInfo", "CreateCmoInfo", "CreateTimerInfo"} -> 1
    [] e.By = "ImsicRintcInfoParser" -> 2
    [] e.By = "AplicRintcInfoParser" -> 3
    [] e.By = "PlicRintcInfoParser" -> 4
    [] e.By = "RiscVIntcInfoParser" -> 5
    [] OTHER -> 0

\* The objects of the last invocation are in pass order, the RINTC
\* descriptor is added at most once, as the last object, and always on
\* success.
InPassOrder ==
  /\ \A k \in 1..Len(AddedNow) : PassOf(AddedNow[k]) \in 1..5
  /\ \A k \in 1..(Len(AddedNow) - 1) :
       PassOf(AddedNow[k]) <= PassOf(AddedNow[k + 1])
  /\ Len(RintcAddedNow) <= 1
  /\ Len(RintcAddedNow) = 1 =>
       /\ PassOf(AddedNow[Len(AddedNow)]) = 5
       /\ IsRintc(AddedNow[Len(AddedNow)])
  /\ pStatus = "EFI_SUCCESS" => Len(RintcAddedNow) = 1

\* The IMSIC pass's patch is in the stored records: the core the first
\* interrupts-extended pair of the accepted IMSIC node names has the first
\* page of the node's first reg range.
ImsicPatchStored ==
  \A k \in 1..Len(AddedNow) :
    (PassOf(AddedNow[k]) = 2 /\ Len(RintcAddedNow) = 1) =>
      LET Node == fdt.devs[AddedNow[k].Node]
      IN \E r \in 1..Len(RintcAddedNow[1].Data) :
           /\ RintcAddedNow[1].Data[r].IntcPhandle = IntExtPhandle(Node, 0)
           /\ RintcAddedNow[1].Data[r].ImsicBaseAddress = Node.reg[1].addr
           /\ RintcAddedNow[1].Data[r].ImsicSize = IMSIC_MMIO_PAGE_SZ

\* The interrupts-extended pairs of the node of added object k through
\* which its pass writes the ExtIntCId of the core with phandle Ph: every
\* pair of an APLIC node that names the core (when the property has whole
\* pairs), the S-mode pairs of a PLIC node that name it.
PatchPairs(k, Ph) ==
  IF PassOf(AddedNow[k]) = 3
  THEN IF fdt.devs[AddedNow[k].Node].hasIntExt
          /\ Len(fdt.devs[AddedNow[k].Node].intExt) % 2 = 0
       THEN {j \in 0..(Len(fdt.devs[AddedNow[k].Node].intExt) \div 2 - 1) :
               IntExtPhandle(fdt.devs[AddedNow[k].Node], j) = Ph}
       ELSE {}
  ELSE IF PassOf(AddedNow[k]) = 4
  THEN {j \in 0..Len(fdt.devs[AddedNow[k].Node].intExt) :
          /\ 2 * j < Len(fdt.devs[AddedNow[k].Node].intExt)
          /\ IntExtType(fdt.devs[AddedNow[k].Node], j) = IRQ_S_EXT
          /\ IntExtPhandle(fdt.devs[AddedNow[k].Node], j) = Ph}
  ELSE {}

\* The added controller objects whose pass patched the core Ph.
Patchers(Ph) == {k \in 1..Len(AddedNow) : PatchPairs(k, Ph) # {}}
LastOf(Set) == CHOOSE m \in Set : \A x \in Set : x <= m

\* The context index a pass writes for pair j: the pair's index for an
\* APLIC, 2 x local hart index + 1 for a PLIC.
ContextOf(k, j) == IF PassOf(AddedNow[k]) = 3 THEN j ELSE 2 * (j \div 2) + 1

\* What the passes leave in the ExtIntCId of the core Ph: the value of the
\* last write, by the last pair of the last controller that names the
\* core, and 0 when no controller names it.
PatchedExtIntCId(Ph) ==
  IF Patchers(Ph) = {} THEN 0
  ELSE ACPI_BUILD_EXT_INTC_ID(
         AddedNow[LastOf(Patchers(Ph))].Data[1].Id.Off,
         ContextOf(LastOf(Patchers(Ph)),
                   LastOf(PatchPairs(LastOf(Patchers(Ph)), Ph))))

\* The APLIC and PLIC passes' patches are in the stored records, when every
\* interrupt target names a core (an unmatched one ends a pass half way).
ExtIntCIdPatchStored ==
  (Len(RintcAddedNow) = 1 /\ ~HasUnmatchedTarget) =>
    \A r \in 1..Len(RintcAddedNow[1].Data) :
      RintcAddedNow[1].Data[r].ExtIntCId =
        PatchedExtIntCId(RintcAddedNow[1].Data[r].IntcPhandle)

\* No object of the store changes once it is there.
StoreOnlyGrows ==
  /\ Len(store') >= Len(store)
  /\ \A k \in 1..Len(store) : store'[k] = store[k]

\* C25: RiscVIntcInfoParser runs its passes in the order CPU records, IMSIC,
\* APLIC, PLIC, bulk insert: the objects it adds are in that order with the
\* RINTC descriptor last, the descriptor carries what the passes patched
\* (ImsicBaseAddress, ImsicSize, ExtIntCId), and no step changes an object
\* already in the store.
C25_TwoPhaseBuild ==
  [][StoreOnlyGrows
       /\ (IntcRan' => InPassOrder' /\ ImsicPatchStored' /\ ExtIntCIdPatchStored')]_vars

\* An IMSIC object and an APLIC or PLIC object were added, then the RINTC
\* records with the IMSIC page and a controller's ExtIntCId patched in.
C25_Witness ==
  /\ IntcRan
  /\ pStatus = "EFI_SUCCESS"
  /\ \E k \in 1..Len(AddedNow) : PassOf(AddedNow[k]) = 2
  /\ \E k \in 1..Len(AddedNow) : PassOf(AddedNow[k]) \in {3, 4}
  /\ \E r \in 1..Len(RintcAddedNow[1].Data) :
       /\ RintcAddedNow[1].Data[r].ImsicSize = IMSIC_MMIO_PAGE_SZ
       /\ RintcAddedNow[1].Data[r].ExtIntCId # 0

(***************************************************************************)
(* Claims about the scratch buffers                                        *)
(***************************************************************************)
\* The last invocation was one of the two RINTC parsers.
PoolTraced == Invoked /\ pOp \in {"RiscVIntcInfoParser", "RiscVRintcInfoParser"}

\* The positions of a pool call in the last invocation.
CallsOf(Ev) == {k \in 1..Len(pPool) : pPool[k] = Ev}

\* What was allocated by Alloc is released by Free: once, and afterwards.
ReleasedOnce(Alloc, Free) ==
  /\ Cardinality(CallsOf(Alloc)) <= 1
  /\ Cardinality(CallsOf(Free)) = Cardinality(CallsOf(Alloc))
  /\ \A a \in CallsOf(Alloc), f \in CallsOf(Free) : a < f

\* C27: the temporary RINTC array of CpusNodeParser and of the Madt
\* ImsicRintcInfoParser, and the descriptor RiscVIntcInfoParser obtains, are
\* released exactly once on every exit path taken after their allocation.
C27_ScratchReleasedOnce ==
  PoolTraced =>
    /\ ReleasedOnce(AllocBuffer, FreeBuffer)
    /\ pOp = "RiscVIntcInfoParser" => ReleasedOnce(AllocDesc, FreeDesc)

(***************************************************************************)
(* Claims about the Timer record's wake flag                               *)
(***************************************************************************)
\* The riscv,timer node the parser consults, 0 when the tree has none.
TimerNodeOf == FdtGetCompatSmodeNode(fdt, "riscv,timer", 1)

\* C28: every Timer record CreateTimerInfo emitted has TimerCannotWakeCpu = 1
\* when the riscv,timer node carries riscv,timer-cannot-wake-cpu and 0
\* otherwise, a tree with no riscv,timer node included: the field is never
\* left unassigned.
C28_WakeFlagAlwaysAssigned ==
  Invoked =>
    \A k \in 1..Len(TimerRecords) :
      TimerRecords[k].TimerCannotWakeCpu =
        IF TimerNodeOf # 0 /\ fdt.devs[TimerNodeOf].cannotWake
        THEN Known(1) ELSE Known(0)

(***************************************************************************)
(* Claims about the object parser                                          *)
(***************************************************************************)
Parsed == uOp = "ParseCmObjDesc"

\* The descriptor handed in names a type with a parser and is consistent:
\* Size = Count x sizeof (record).
Consistent ==
  /\ ~uIn.Null /\ ~uIn.DataNull
  /\ ParserArrayOf(uIn.NameSpace, uIn.ObjId) \notin {"NULL", NotParsed}
  /\ uIn.Size = uIn.Count * RecordSizeOf(uIn.NameSpace, uIn.ObjId)

\* C29: ParseCmObjDesc and PrintCmObjDesc never read Data at an offset >=
\* Size (every read ends at or before Size), and for a descriptor with
\* Count = N and Size = N x record size record i is parsed from offset
\* i x record size on and the remaining size ends at 0.
C29_NoReadPastSize ==
  Parsed =>
    /\ \A k \in 1..Len(uOut.Reads) : uOut.Reads[k][1] + uOut.Reads[k][2] <= uIn.Size
    /\ Consistent =>
         /\ uOut.Starts = [i \in 1..uIn.Count |-> (i - 1) * RecordSizeOf(uIn.NameSpace, uIn.ObjId)]
         /\ uOut.Remaining = 0

(***************************************************************************)
(* Claims about the system memory selection                                *)
(***************************************************************************)
\* The last call was PublishPeiMemory and it got past the pointer checks.
MemoryPublished == uOp = "PublishPeiMemory" /\ uOut.Published

\* The memory nodes with a 16-byte reg.
UsableNodes ==
  {k \in 1..Len(uIn.Nodes) :
     /\ uIn.Nodes[k].hasType /\ uIn.Nodes[k].deviceType = MemoryString
     /\ uIn.Nodes[k].regLen = 16}

\* C30: among the memory nodes with a 16-byte reg PublishPeiMemory selects
\* the one with the lowest base address, in whatever order the nodes come
\* and whatever the bases are, 0 included.
C30_LowestBaseSelected ==
  (MemoryPublished /\ UsableNodes # {}) =>
    \E k \in UsableNodes :
      /\ \A j \in UsableNodes : uIn.Nodes[k].base <= uIn.Nodes[j].base
      /\ uOut.SystemMemoryBase = uIn.Nodes[k].base
      /\ uOut.SystemMemorySize = uIn.Nodes[k].size

==============================================================================
